---- MODULE Spec2Model ----
(***************************************************************************)
(* The story timeline of VNova Assistant (src/story_manager/               *)
(* story_timeline.py): StoryEvent, StoryTimeline and the persistence of a  *)
(* timeline as a JSON document.                                            *)
(*                                                                         *)
(* A timeline object is a record `self`; every method is an operator that  *)
(* takes the record and returns [self |-> the object afterwards,           *)
(* ret |-> the returned value].  The actions apply the methods to the      *)
(* state variables.                                                        *)
(***************************************************************************)
EXTENDS Integers, Sequences, FiniteSets, TLC

VARIABLES
    events,            \* self.events: event_id -> StoryEvent
    order,             \* insertion order of the keys of self.events (a dict is ordered)
    head_event_id,     \* self.head_event_id
    active_branch_id,  \* self.active_branch_id
    characters,        \* self.characters
    assets,            \* self.assets
    dirty,             \* self.dirty
    now,               \* the last reading of datetime.now()
    resolution,        \* of the clock: "coarse" (two readings can be equal) or "fine"
    issued,            \* the ids add_event has returned so far, in call order
    last,              \* the last call: its name and whether it succeeded
    pc,                \* position of the scenario script ("api" when no script runs)
    timeline_data,     \* the value get_timeline_data returned last
    disk,              \* the timeline file
    current_project_path,  \* MainWindow.current_project_path
    selected_node_id,  \* StoryTimelineWidget.selected_node_id
    ollama_worker,     \* MainWindow.ollama_worker, with the signal it has emitted
    uuids,             \* the number of uuid4() values the Ollama client has drawn
    message_box,       \* the text of the MessageBox shown last
    undo_button,       \* MainWindow.undo_button.isEnabled()
    enabled,           \* isEnabled() of the controls generate_story disables
    ollama_thread      \* MainWindow.ollama_thread

\* the main window's part of the state
window == <<selected_node_id, ollama_worker, uuids, message_box, undo_button,
           enabled, ollama_thread>>

vars == <<events, order, head_event_id, active_branch_id, characters, assets,
          dirty, now, resolution, issued, last, pc, timeline_data, disk,
          current_project_path, selected_node_id, ollama_worker, uuids, message_box,
          undo_button, enabled, ollama_thread>>

(***************************************************************************)
(* Bounds of the model.                                                    *)
(***************************************************************************)
MaxEvents == 3      \* add_event calls made on one timeline
MaxClock == 1       \* a coarse clock starts at 0 and advances up to MaxClock
MaxChoices == 2     \* options passed to one create_branch_point call
MaxRequests == 2    \* distinct Ollama request ids
MaxAssets == 1      \* assets and characters stored at once

(***************************************************************************)
(* Python values.                                                          *)
(***************************************************************************)
None == <<>>
EmptyDict == <<>>

DictSet(d, k, v) == [x \in (DOMAIN d) \cup {k} |-> IF x = k THEN v ELSE d[x]]
DictDel(d, k) == [x \in (DOMAIN d) \ {k} |-> d[x]]
DictGet(d, k, default) == IF k \in DOMAIN d THEN d[k] ELSE default

RECURSIVE ListRemove(_, _)
\* list.remove(x): drops the first occurrence; the ValueError of a missing x
\* is swallowed by the caller, which leaves the list as it was.
ListRemove(l, x) ==
    IF l = <<>> THEN <<>>
    ELSE IF Head(l) = x THEN Tail(l)
    ELSE <<Head(l)>> \o ListRemove(Tail(l), x)

Range(s) == {s[i] : i \in DOMAIN s}

RequestIds == {<<"ollama", n>> : n \in 1..MaxRequests}

TextNodeData == {[text |-> "A"], [text |-> "B"]}
\* the payload of the root node refresh_timeline_view creates (in the source
\* the text is the Chinese for "story start")
RootData == [text |-> "story start"]
GenerationData == {[prompt |-> "p", response |-> "r", suggestions |-> <<>>]}
\* BranchDialog.add_choice builds {"text", "data": {"content"}}; the API also
\* accepts a choice without "data".
BranchChoices ==
    {[text |-> "x", data |-> [content |-> "cx"]],
     [text |-> "y"]}
BranchOptionData ==
    {[text |-> c.text, content |-> DictGet(c, "data", EmptyDict)] : c \in BranchChoices}

EventTypes == {"text_node", "ollama_generation", "branch_option"}

\* Every payload of the model, in a fixed order.
AllData ==
    <<[text |-> "A"], [text |-> "B"],
      [prompt |-> "p", response |-> "r", suggestions |-> <<>>],
      [text |-> "x", content |-> [content |-> "cx"]],
      [text |-> "y", content |-> EmptyDict],
      RootData>>

\* json.dumps(data) is a string determined by data; hash() of it is an
\* integer determined by that string.  Equal payloads have equal hashes; the
\* model gives distinct payloads distinct hashes.
Hash(data) == CHOOSE i \in DOMAIN AllData : AllData[i] = data

(***************************************************************************)
(* StoryEvent                                                              *)
(***************************************************************************)
\* f"{timestamp}-{event_type}-{hash(json.dumps(data))}"
EventId(timestamp, event_type, data) == <<timestamp, event_type, Hash(data)>>

StoryEvent(timestamp, event_type, data, parent_event_id, ollama_request_id) ==
    [event_id          |-> EventId(timestamp, event_type, data),
     timestamp         |-> timestamp,
     event_type        |-> event_type,
     data              |-> data,
     parent_event_id   |-> parent_event_id,
     child_event_ids   |-> <<>>,
     ollama_request_id |-> ollama_request_id,
     emotion           |-> None,
     is_branch_point   |-> FALSE,
     branch_choices    |-> <<>>]

\* datetime.isoformat() and datetime.fromisoformat()
isoformat(timestamp) == <<"iso", timestamp>>
fromisoformat(s) == s[2]

to_dict(event) ==
    [event_id          |-> event.event_id,
     timestamp         |-> isoformat(event.timestamp),
     event_type        |-> event.event_type,
     data              |-> event.data,
     parent_event_id   |-> event.parent_event_id,
     child_event_ids   |-> event.child_event_ids,
     ollama_request_id |-> event.ollama_request_id,
     emotion           |-> event.emotion,
     is_branch_point   |-> event.is_branch_point,
     branch_choices    |-> event.branch_choices]

\* from_dict without line 48: the children are not restored
from_dict_without_children(data) ==
    LET event == StoryEvent(fromisoformat(data.timestamp), data.event_type, data.data,
                            DictGet(data, "parent_event_id", None),
                            DictGet(data, "ollama_request_id", None))
    IN [event EXCEPT
          !.event_id        = data.event_id,
          !.emotion         = DictGet(data, "emotion", None),
          !.is_branch_point = DictGet(data, "is_branch_point", FALSE),
          !.branch_choices  = DictGet(data, "branch_choices", <<>>)]

from_dict(data) ==
    LET event == StoryEvent(fromisoformat(data.timestamp), data.event_type, data.data,
                            DictGet(data, "parent_event_id", None),
                            DictGet(data, "ollama_request_id", None))
    IN [event EXCEPT
          !.event_id        = data.event_id,
          !.child_event_ids = DictGet(data, "child_event_ids", <<>>),
          !.emotion         = DictGet(data, "emotion", None),
          !.is_branch_point = DictGet(data, "is_branch_point", FALSE),
          !.branch_choices  = DictGet(data, "branch_choices", <<>>)]

(***************************************************************************)
(* StoryTimeline                                                           *)
(***************************************************************************)
AssetCategories == {"backgrounds", "characters", "sounds", "music"}

\* StoryTimeline.__init__
NewTimeline ==
    [events           |-> EmptyDict,
     order            |-> <<>>,
     head_event_id    |-> None,
     characters       |-> EmptyDict,
     active_branch_id |-> None,
     assets           |-> [c \in AssetCategories |-> EmptyDict],
     dirty            |-> FALSE]

Self ==
    [events           |-> events,
     order            |-> order,
     head_event_id    |-> head_event_id,
     characters       |-> characters,
     active_branch_id |-> active_branch_id,
     assets           |-> assets,
     dirty            |-> dirty]

get_event(self, event_id) == DictGet(self.events, event_id, None)

\* self.events[key] = value on the ordered dict: a new key goes last, an
\* existing key keeps its place.
StoreEvent(self, event) ==
    [self EXCEPT
       !.events = DictSet(@, event.event_id, event),
       !.order  = IF event.event_id \in DOMAIN self.events THEN @
                  ELSE Append(@, event.event_id)]

\* add_event that moves the head only when the new event continues it
add_event_keeping_head(self, timestamp, event_type, data, parent_arg, ollama_request_id) ==
    LET parent_event_id == IF parent_arg = None THEN self.head_event_id ELSE parent_arg
        new_event == StoryEvent(timestamp, event_type, data, parent_event_id, ollama_request_id)
        stored == StoreEvent(self, new_event)
        linked ==
            IF parent_event_id # None /\ parent_event_id \in DOMAIN stored.events
            THEN [stored EXCEPT !.events[parent_event_id].child_event_ids =
                                    Append(@, new_event.event_id)]
            ELSE stored
    IN [self |-> [linked EXCEPT
                    !.head_event_id = IF parent_event_id = self.head_event_id
                                      THEN new_event.event_id ELSE @,
                    !.dirty = TRUE],
        ret  |-> new_event.event_id]

add_event(self, timestamp, event_type, data, parent_arg, ollama_request_id) ==
    LET parent_event_id == IF parent_arg = None THEN self.head_event_id ELSE parent_arg
        new_event == StoryEvent(timestamp, event_type, data, parent_event_id, ollama_request_id)
        stored == StoreEvent(self, new_event)
        linked ==
            IF parent_event_id # None /\ parent_event_id \in DOMAIN stored.events
            THEN [stored EXCEPT !.events[parent_event_id].child_event_ids =
                                    Append(@, new_event.event_id)]
            ELSE stored
    IN [self |-> [linked EXCEPT !.head_event_id = new_event.event_id, !.dirty = TRUE],
        ret  |-> new_event.event_id]

\* line 125 without `and not created_branch_ids`: every option takes the children
ReattachAtEveryOption(existing_children, created_branch_ids) ==
    existing_children # <<>>

\* line 125: the children the event had go under the first created option
ReattachHere(existing_children, created_branch_ids) ==
    existing_children # <<>> /\ created_branch_ids = <<>>

RECURSIVE ReattachChildren(_, _, _, _)
\* lines 127-131, from the i-th existing child on
ReattachChildren(evts, branch_event_id, existing_children, i) ==
    IF i > Len(existing_children) THEN evts
    ELSE LET child_id == existing_children[i]
             reparented ==
                 IF child_id \in DOMAIN evts
                 THEN LET moved == [evts EXCEPT ![child_id].parent_event_id = branch_event_id]
                      IN [moved EXCEPT ![branch_event_id].child_event_ids = Append(@, child_id)]
                 ELSE evts
         IN ReattachChildren(reparented, branch_event_id, existing_children, i + 1)

RECURSIVE BranchLoop(_, _, _, _, _, _, _)
\* lines 118-139.  `attached` says whether the local `event` is still the
\* object stored at self.events[event_id]: add_event replaces the stored
\* object when the new id equals event_id, and the later writes to `event`
\* then go to an object the timeline no longer holds.
BranchLoop(self, event_id, attached, existing_children, branch_choices, timestamps, created) ==
    LET i == Len(created) + 1 IN
    IF i > Len(branch_choices) THEN [self |-> self, created |-> created]
    ELSE LET choice == branch_choices[i]
             added == add_event(self, timestamps[i], "branch_option",
                                [text |-> choice.text,
                                 content |-> DictGet(choice, "data", EmptyDict)],
                                event_id, None)
             branch_event_id == added.ret
             still == attached /\ branch_event_id # event_id
             reattached ==
                 IF ReattachHere(existing_children, created)
                 THEN [added.self EXCEPT !.events =
                          ReattachChildren(@, branch_event_id, existing_children, 1)]
                 ELSE added.self
             listed ==
                 IF still
                 THEN [reattached EXCEPT !.events[event_id].branch_choices =
                          Append(@, [text |-> choice.text, target_id |-> branch_event_id])]
                 ELSE reattached
         IN BranchLoop(listed, event_id, still, existing_children, branch_choices,
                       timestamps, Append(created, branch_event_id))

\* create_branch_point reaching line 141 on the not-found path too
create_branch_point_marking_dirty(self, event_id, branch_choices, timestamps) ==
    IF event_id \notin DOMAIN self.events
    THEN [self |-> [self EXCEPT !.dirty = TRUE], ret |-> [ok |-> FALSE, ids |-> <<>>]]
    ELSE LET existing_children == self.events[event_id].child_event_ids
             cleared == [self EXCEPT !.events[event_id] =
                            [@ EXCEPT !.is_branch_point = TRUE,
                                      !.child_event_ids = <<>>,
                                      !.branch_choices = <<>>]]
             done == BranchLoop(cleared, event_id, TRUE, existing_children,
                                branch_choices, timestamps, <<>>)
         IN [self |-> [done.self EXCEPT !.dirty = TRUE],
             ret  |-> [ok |-> TRUE, ids |-> done.created]]

\* create_branch_point without line 113: the former branch_choices are kept
create_branch_point_keeping_choices(self, event_id, branch_choices, timestamps) ==
    IF event_id \notin DOMAIN self.events
    THEN [self |-> self, ret |-> [ok |-> FALSE, ids |-> <<>>]]
    ELSE LET existing_children == self.events[event_id].child_event_ids
             cleared == [self EXCEPT !.events[event_id] =
                            [@ EXCEPT !.is_branch_point = TRUE,
                                      !.child_event_ids = <<>>]]
             done == BranchLoop(cleared, event_id, TRUE, existing_children,
                                branch_choices, timestamps, <<>>)
         IN [self |-> [done.self EXCEPT !.dirty = TRUE],
             ret  |-> [ok |-> TRUE, ids |-> done.created]]

\* timestamps[i] is the clock reading of the i-th add_event call
create_branch_point(self, event_id, branch_choices, timestamps) ==
    IF event_id \notin DOMAIN self.events
    THEN [self |-> self, ret |-> [ok |-> FALSE, ids |-> <<>>]]
    ELSE LET existing_children == self.events[event_id].child_event_ids
             cleared == [self EXCEPT !.events[event_id] =
                            [@ EXCEPT !.is_branch_point = TRUE,
                                      !.child_event_ids = <<>>,
                                      !.branch_choices = <<>>]]
             done == BranchLoop(cleared, event_id, TRUE, existing_children,
                                branch_choices, timestamps, <<>>)
         IN [self |-> [done.self EXCEPT !.dirty = TRUE],
             ret  |-> [ok |-> TRUE, ids |-> done.created]]

get_branch_options(self, event_id) ==
    IF event_id \notin DOMAIN self.events THEN <<>>
    ELSE IF ~self.events[event_id].is_branch_point THEN <<>>
    ELSE self.events[event_id].branch_choices

\* select_branch without line 176: the head stays where it is
select_branch_keeping_head(self, branch_id) ==
    IF branch_id \notin DOMAIN self.events
    THEN [self |-> self, ret |-> FALSE]
    ELSE [self |-> [self EXCEPT !.active_branch_id = branch_id],
          ret  |-> TRUE]

select_branch(self, branch_id) ==
    IF branch_id \notin DOMAIN self.events
    THEN [self |-> self, ret |-> FALSE]
    ELSE [self |-> [self EXCEPT !.active_branch_id = branch_id,
                                !.head_event_id = branch_id],
          ret  |-> TRUE]

is_branch_point(self, event_id) ==
    IF event_id \notin DOMAIN self.events THEN FALSE
    ELSE self.events[event_id].is_branch_point

RECURSIVE BranchDetailsAsCreated(_, _, _)
\* lines 217-225 with the payload the option was created with in place of
\* the payload it has now
BranchDetailsAsCreated(self, choices, i) ==
    IF i > Len(choices) THEN <<>>
    ELSE LET choice == choices[i]
             rest == BranchDetailsAsCreated(self, choices, i + 1)
         IN IF choice.target_id \in DOMAIN self.events
            THEN <<[text |-> choice.text, target_id |-> choice.target_id,
                    content |-> DictSet(self.events[choice.target_id].data, "text",
                                        choice.text)]>> \o rest
            ELSE rest

RECURSIVE BranchDetails(_, _, _)
\* lines 217-225, from the i-th choice on
BranchDetails(self, choices, i) ==
    IF i > Len(choices) THEN <<>>
    ELSE LET choice == choices[i]
             rest == BranchDetails(self, choices, i + 1)
         IN IF choice.target_id \in DOMAIN self.events
            THEN <<[text |-> choice.text, target_id |-> choice.target_id,
                    content |-> self.events[choice.target_id].data]>> \o rest
            ELSE rest

\* lines 213-226
EventData(self, event, include_branches) ==
    IF include_branches /\ event.is_branch_point
    THEN to_dict(event) @@ ("branch_details" :> BranchDetails(self, event.branch_choices, 1))
    ELSE to_dict(event)

RECURSIVE WalkPath(_, _, _, _, _, _)
\* The while loop of lines 210-237.  The loop reads the timeline and never
\* writes it, so it runs forever exactly when it comes back to an event it
\* has visited; `seen` holds the visited ids.
WalkPath(self, current_id, start_event_id, include_branches, path, seen) ==
    IF current_id = None THEN [terminates |-> TRUE, path |-> path]
    ELSE IF current_id \in seen THEN [terminates |-> FALSE, path |-> <<>>]
    ELSE IF current_id \notin DOMAIN self.events THEN [terminates |-> TRUE, path |-> path]
    ELSE LET event == self.events[current_id]
             path1 == Append(path, EventData(self, event, include_branches))
             next_id == event.parent_event_id
         IN IF start_event_id # None /\ next_id = start_event_id
            THEN [terminates |-> TRUE,
                  path |-> IF start_event_id \in DOMAIN self.events
                           THEN Append(path1, to_dict(self.events[start_event_id]))
                           ELSE path1]
            ELSE WalkPath(self, next_id, start_event_id, include_branches, path1,
                          seen \cup {current_id})

Reverse(s) == [i \in 1..Len(s) |-> s[Len(s) + 1 - i]]

get_timeline_data(self, start_event_id, include_branches) ==
    LET current_id == IF self.active_branch_id # None THEN self.active_branch_id
                      ELSE self.head_event_id
        walk == WalkPath(self, current_id, start_event_id, include_branches, <<>>, {})
    IN [terminates |-> walk.terminates, path |-> Reverse(walk.path)]

RECURSIVE BranchPoints(_, _)
\* lines 247-255, from the i-th key on
BranchPoints(self, i) ==
    IF i > Len(self.order) THEN <<>>
    ELSE LET event == self.events[self.order[i]]
             rest == BranchPoints(self, i + 1)
         IN IF event.is_branch_point
            THEN <<[event_id |-> self.order[i], timestamp |-> isoformat(event.timestamp),
                    content |-> event.data, choices |-> event.branch_choices]>> \o rest
            ELSE rest

\* get_all_branches looking at the position: with an active branch, only the
\* branch point it belongs to
get_all_branches_of_active(self) ==
    IF self.active_branch_id = None THEN BranchPoints(self, 1)
    ELSE SelectSeq(BranchPoints(self, 1),
                   LAMBDA b : \E i \in DOMAIN b.choices :
                                 b.choices[i].target_id = self.active_branch_id)

get_all_branches(self) == BranchPoints(self, 1)

RECURSIVE EventsOfAnyRequest(_, _, _)
\* lines 260-263 selecting every event that carries a request id
EventsOfAnyRequest(self, ollama_request_id, i) ==
    IF i > Len(self.order) THEN <<>>
    ELSE LET rest == EventsOfAnyRequest(self, ollama_request_id, i + 1)
         IN IF self.events[self.order[i]].ollama_request_id # None
            THEN <<self.order[i]>> \o rest
            ELSE rest

RECURSIVE EventsToRemove(_, _, _)
\* lines 260-263: the keys, in dict order, whose event carries the request id
EventsToRemove(self, ollama_request_id, i) ==
    IF i > Len(self.order) THEN <<>>
    ELSE LET rest == EventsToRemove(self, ollama_request_id, i + 1)
         IN IF self.events[self.order[i]].ollama_request_id = ollama_request_id
            THEN <<self.order[i]>> \o rest
            ELSE rest

\* line 282: where the head goes when the removed event was the head
HeadAfterRemoval(event) == event.parent_event_id

RECURSIVE RemoveLoop(_, _, _)
\* lines 271-282, from the i-th id of events_to_remove on
RemoveLoop(self, events_to_remove, i) ==
    IF i > Len(events_to_remove) THEN self
    ELSE LET event_id == events_to_remove[i]
             event == self.events[event_id]
             popped == [self EXCEPT !.events = DictDel(@, event_id),
                                    !.order = ListRemove(@, event_id)]
             unlinked ==
                 IF event.parent_event_id # None
                    /\ event.parent_event_id \in DOMAIN popped.events
                 THEN [popped EXCEPT !.events[event.parent_event_id].child_event_ids =
                                        ListRemove(@, event_id)]
                 ELSE popped
             retreated ==
                 IF self.head_event_id = event_id
                 THEN [unlinked EXCEPT !.head_event_id = HeadAfterRemoval(event)]
                 ELSE unlinked
         IN RemoveLoop(retreated, events_to_remove, i + 1)

\* undo_ollama_generation without the early return of lines 265-267
undo_ollama_generation_always_ok(self, ollama_request_id) ==
    LET events_to_remove == EventsToRemove(self, ollama_request_id, 1)
    IN IF events_to_remove = <<>>
       THEN [self |-> self, ret |-> TRUE]
       ELSE [self |-> [RemoveLoop(self, events_to_remove, 1) EXCEPT !.dirty = TRUE],
             ret  |-> TRUE]

undo_ollama_generation(self, ollama_request_id) ==
    LET events_to_remove == EventsToRemove(self, ollama_request_id, 1)
    IN IF events_to_remove = <<>>
       THEN [self |-> self, ret |-> FALSE]
       ELSE [self |-> [RemoveLoop(self, events_to_remove, 1) EXCEPT !.dirty = TRUE],
             ret  |-> TRUE]

(***************************************************************************)
(* Persistence: the timeline file holds a JSON document or is missing.     *)
(***************************************************************************)
MissingFile == [kind |-> "missing"]
\* open() raises an IOError other than FileNotFoundError
UnreadableFile == [kind |-> "unreadable"]
\* json.load() raises JSONDecodeError: a truncated or foreign file
GarbageFile == [kind |-> "garbage"]
DocumentFile(document) == [kind |-> "document", document |-> document]

\* data_to_save of lines 293-299; `keys` is the order of the "events" object
save_document(self) ==
    [events           |-> [eid \in DOMAIN self.events |-> to_dict(self.events[eid])],
     keys             |-> self.order,
     head_event_id    |-> self.head_event_id,
     active_branch_id |-> self.active_branch_id,
     characters       |-> self.characters,
     assets           |-> self.assets]

\* a save whose open() and json.dump() succeed
save_timeline(self) ==
    [self |-> [self EXCEPT !.dirty = FALSE],
     file |-> DocumentFile(save_document(self))]

\* the keys from_dict reads with data[...] (lines 41-43 and 47): a document
\* of an event that lacks one raises KeyError
RequiredKeys == {"timestamp", "event_type", "data", "event_id"}

from_dict_raises(data) == ~(RequiredKeys \subseteq DOMAIN data)

\* The exception load_timeline lets through: the KeyError of from_dict is
\* none of FileNotFoundError, IOError, JSONDecodeError (lines 323-328).
load_raises(file) ==
    /\ file.kind = "document"
    /\ LET loaded_events == DictGet(file.document, "events", EmptyDict)
       IN \E eid \in DOMAIN loaded_events : from_dict_raises(loaded_events[eid])

\* The timeline after load_timeline.  The except clauses run __init__; a
\* KeyError leaves the comprehension of lines 313-316 before anything is
\* assigned, so the timeline is as it was.
load_timeline(self, file) ==
    IF file.kind # "document"
    THEN NewTimeline
    ELSE IF load_raises(file)
    THEN self
    ELSE LET data_loaded == file.document
             loaded_events == DictGet(data_loaded, "events", EmptyDict)
         IN [events           |-> [eid \in DOMAIN loaded_events |-> from_dict(loaded_events[eid])],
             order            |-> IF "events" \in DOMAIN data_loaded
                                  THEN data_loaded.keys ELSE <<>>,
             head_event_id    |-> DictGet(data_loaded, "head_event_id", None),
             active_branch_id |-> DictGet(data_loaded, "active_branch_id", None),
             characters       |-> DictGet(data_loaded, "characters", EmptyDict),
             assets           |-> DictGet(data_loaded, "assets", EmptyDict),
             dirty            |-> FALSE]

\* How the open() and json.dump() of save_timeline end.
IoOutcomes == {"ok", "open_fails", "write_fails"}

\* save_timeline with its try/except (lines 300-306): an IOError is printed
\* and swallowed, dirty stays; a write that fails midway leaves a truncated
\* file.
save_timeline_writing(self, file, io) ==
    IF io = "ok" THEN save_timeline(self)
    ELSE [self |-> self,
          file |-> IF io = "open_fails" THEN file ELSE GarbageFile]

\* MainWindow.save_project_as; fileName is None when the dialog is cancelled
save_project_as(self, path, file, io, fileName) ==
    IF fileName = None
    THEN [self |-> self, file |-> file, path |-> path]
    ELSE LET r == save_timeline_writing(self, file, io)
         IN [self |-> [r.self EXCEPT !.dirty = FALSE], file |-> r.file, path |-> fileName]

\* MainWindow.save_project
save_project(self, path, file, io, fileName) ==
    IF path # None
    THEN LET r == save_timeline_writing(self, file, io)
         IN [self |-> [r.self EXCEPT !.dirty = FALSE], file |-> r.file, path |-> path]
    ELSE save_project_as(self, path, file, io, fileName)

\* MainWindow.auto_save_project: the autosave copy is written first, then
\* the project file; os.makedirs can raise, which the handler catches.
auto_save_project(self, path, file, makedirs_ok, io_copy, io) ==
    IF path = None \/ ~self.dirty \/ ~makedirs_ok
    THEN [self |-> self, file |-> file, path |-> path]
    ELSE LET copy == save_timeline_writing(self, MissingFile, io_copy)
             r == save_timeline_writing(copy.self, file, io)
         IN [self |-> [r.self EXCEPT !.dirty = FALSE], file |-> r.file, path |-> path]

(***************************************************************************)
(* Asset registry and character table                                      *)
(***************************************************************************)
\* asset_data that is no dict: the string of a path
NonDictData == {[str |-> "assets/bg.png"]}

add_asset(self, category, asset_id, asset_data) ==
    IF category \notin DOMAIN self.assets
    THEN [self |-> self, ret |-> FALSE]
    ELSE LET stored == IF asset_data \in NonDictData
                       THEN [path |-> asset_data.str] ELSE asset_data
         IN [self |-> [self EXCEPT !.assets[category] = DictSet(@, asset_id, stored),
                                   !.dirty = TRUE],
             ret  |-> TRUE]

\* remove_asset without line 371
remove_asset_keeping_dirty(self, category, asset_id) ==
    IF category \notin DOMAIN self.assets \/ asset_id \notin DOMAIN self.assets[category]
    THEN [self |-> self, ret |-> FALSE]
    ELSE [self |-> [self EXCEPT !.assets[category] = DictDel(@, asset_id)],
          ret  |-> TRUE]

remove_asset(self, category, asset_id) ==
    IF category \notin DOMAIN self.assets \/ asset_id \notin DOMAIN self.assets[category]
    THEN [self |-> self, ret |-> FALSE]
    ELSE [self |-> [self EXCEPT !.assets[category] = DictDel(@, asset_id),
                                !.dirty = TRUE],
          ret  |-> TRUE]

\* get_assets(*args): args is <<>> when the category is left out (None), and
\* <<category>> otherwise.  The method has no assignment: it returns a value
\* and the timeline is as it was.
get_assets(self, args) ==
    IF args = <<>> THEN self.assets
    ELSE IF args[1] \notin DOMAIN self.assets THEN EmptyDict
    ELSE self.assets[args[1]]

\* CharacterManagerDialog.add_new_character
add_new_character(self, new_char_id) ==
    [self EXCEPT !.characters = DictSet(@, new_char_id, [name |-> "new", description |-> ""]),
                 !.dirty = TRUE]

(***************************************************************************)
(* The calls a client of the timeline makes.                               *)
(***************************************************************************)
\* An id no event has: every timestamp of the model is at least 0.
UnknownId == <<-1, "text_node", 0>>

\* datetime.now() never goes back.  A coarse clock can return the reading it
\* returned last; a fine clock returns a later reading on every call.
Readings(from) ==
    IF resolution = "coarse"
    THEN {from} \cup (IF from < MaxClock THEN {from + 1} ELSE {})
    ELSE {from + 1}

\* The readings of n successive datetime.now() calls.
ReadingSeqs(n) ==
    {ts \in [1..n -> now..(now + n)] :
        \A i \in 1..n : ts[i] \in Readings(IF i = 1 THEN now ELSE ts[i - 1])}

Call(op, ok) == [op |-> op, ok |-> ok]

Install(self) ==
    /\ events' = self.events
    /\ order' = self.order
    /\ head_event_id' = self.head_event_id
    /\ active_branch_id' = self.active_branch_id
    /\ characters' = self.characters
    /\ assets' = self.assets
    /\ dirty' = self.dirty

AddEventWith(parents, texts) ==
    /\ Len(issued) < MaxEvents
    /\ \E event_type \in {"text_node", "ollama_generation"},
          parent \in parents,
          timestamp \in Readings(now) :
         \E data \in (IF event_type = "text_node" THEN texts ELSE GenerationData),
            req \in (IF event_type = "text_node" THEN {None} ELSE RequestIds) :
            LET r == add_event(Self, timestamp, event_type, data, parent, req)
            IN /\ Install(r.self)
               /\ now' = timestamp
               /\ issued' = Append(issued, r.ret)
               /\ last' = Call("add_event", TRUE)
    /\ UNCHANGED <<resolution, pc, timeline_data, disk, current_project_path, window>>

\* add_event with the parent omitted or naming an existing event
AddEvent == AddEventWith({None} \cup DOMAIN events, {[text |-> "A"]})

\* add_event with a parent id that is no key of events
AddEventUnknownParent == AddEventWith({UnknownId}, {[text |-> "A"]})

CreateBranchPointOn(ids) ==
    /\ \E event_id \in ids, n \in 0..MaxChoices :
         /\ Len(issued) + n <= MaxEvents
         /\ \E branch_choices \in [1..n -> BranchChoices], timestamps \in ReadingSeqs(n) :
              LET r == create_branch_point(Self, event_id, branch_choices, timestamps)
              IN /\ Install(r.self)
                 /\ now' = IF r.ret.ok /\ n > 0 THEN timestamps[n] ELSE now
                 /\ issued' = issued \o r.ret.ids
                 /\ last' = Call("create_branch_point", r.ret.ok)
    /\ UNCHANGED <<resolution, pc, timeline_data, disk, current_project_path, window>>

SelectBranchOn(ids) ==
    /\ \E branch_id \in ids :
         LET r == select_branch(Self, branch_id)
         IN /\ Install(r.self)
            /\ last' = Call("select_branch", r.ret)
    /\ UNCHANGED <<now, resolution, issued, pc, timeline_data, disk, current_project_path, window>>

UndoGenerationOf(reqs) ==
    /\ \E req \in reqs :
         LET r == undo_ollama_generation(Self, req)
         IN /\ Install(r.self)
            /\ last' = Call("undo_ollama_generation", r.ret)
    /\ UNCHANGED <<now, resolution, issued, pc, timeline_data, disk, current_project_path, window>>

\* the calls that name an event of the timeline or a request id some event carries
CreateBranchPoint == CreateBranchPointOn(DOMAIN events)
SelectBranch == SelectBranchOn(DOMAIN events)
UndoGeneration ==
    UndoGenerationOf({events[id].ollama_request_id : id \in DOMAIN events} \ {None})

\* the controls generate_story disables and _ollama_finished enables
Widgets == {"generate_button", "ollama_prompt_input", "timeline_widget",
            "manage_characters_button", "worldview_info_area", "menuBar"}

InitWith(clock, position) ==
    /\ resolution = clock
    /\ events = NewTimeline.events
    /\ order = NewTimeline.order
    /\ head_event_id = NewTimeline.head_event_id
    /\ active_branch_id = NewTimeline.active_branch_id
    /\ characters = NewTimeline.characters
    /\ assets = NewTimeline.assets
    /\ dirty = NewTimeline.dirty
    /\ now = 0
    /\ issued = <<>>
    /\ last = Call("__init__", TRUE)
    /\ pc = position
    /\ timeline_data = <<>>
    /\ disk = MissingFile
    /\ current_project_path = None
    /\ selected_node_id = None
    /\ ollama_worker = None
    /\ uuids = 0
    /\ message_box = None
    /\ undo_button = FALSE
    /\ enabled = [widget \in Widgets |-> TRUE]
    /\ ollama_thread = None

\* add_event (parent omitted or existing), create_branch_point,
\* select_branch and undo_ollama_generation
NextKnown ==
    \/ AddEvent
    \/ CreateBranchPoint
    \/ SelectBranch
    \/ UndoGeneration

\* The timeline API on a clock that never returns a reading twice.
InitFine == InitWith("fine", "api")
SpecFine == InitFine /\ [][NextKnown]_vars

\* The timeline API on a clock that can return a reading twice.
Init == InitWith("coarse", "api")

Next ==
    \/ AddEvent
    \/ AddEventUnknownParent
    \/ CreateBranchPoint
    \/ SelectBranch
    \/ UndoGeneration

Spec == Init /\ [][Next]_vars

\* The calls that name no event of the timeline, or a request id no event
\* carries (an id never used, or one whose events an undo has removed).
CreateBranchPointUnknown == CreateBranchPointOn({UnknownId})
SelectBranchUnknown == SelectBranchOn({UnknownId})
UndoUnmatched ==
    UndoGenerationOf(RequestIds \ {events[id].ollama_request_id : id \in DOMAIN events})

NextCalls ==
    \/ AddEvent
    \/ CreateBranchPoint
    \/ SelectBranch
    \/ UndoGeneration
    \/ CreateBranchPointUnknown
    \/ SelectBranchUnknown
    \/ UndoUnmatched

\* The timeline API with the calls that fail, on a clock that can return a
\* reading twice.
SpecCalls == Init /\ [][NextCalls]_vars

(***************************************************************************)
(* Reading the path, saving and loading, assets and characters.            *)
(***************************************************************************)
\* A get_timeline_data call that returns.
GetTimelineData ==
    /\ \E start_event_id \in {None} \cup DOMAIN events, include_branches \in BOOLEAN :
         LET r == get_timeline_data(Self, start_event_id, include_branches)
         IN /\ r.terminates
            /\ timeline_data' = r.path
    /\ last' = Call("get_timeline_data", TRUE)
    /\ UNCHANGED <<events, order, head_event_id, active_branch_id, characters, assets,
                   dirty, now, resolution, issued, pc, disk, current_project_path, window>>

ProjectPath == [fileName |-> "project.json"]

\* save_timeline from the editing phase of a project session, with each way
\* the write can end
SaveTimeline ==
    /\ pc = "editing"
    /\ \E io \in IoOutcomes :
         LET r == save_timeline_writing(Self, disk, io)
         IN /\ Install(r.self)
            /\ disk' = r.file
            /\ last' = Call("save_timeline", io = "ok")
    /\ pc' = "saved"
    /\ UNCHANGED <<now, resolution, issued, timeline_data, current_project_path, window>>

\* A document with nothing in it, as a project file of an earlier format or
\* of another tool: {}
BareDocument == EmptyDict

ForeignId == <<0, "text_node", 1>>

\* A document one of whose events has no "timestamp"
MalformedDocument ==
    [events |-> (ForeignId :> [event_id |-> ForeignId, event_type |-> "text_node",
                               data |-> [text |-> "A"]]),
     keys |-> <<ForeignId>>,
     head_event_id |-> ForeignId]

ForeignFiles ==
    {MissingFile, UnreadableFile, GarbageFile,
     DocumentFile(BareDocument), DocumentFile(MalformedDocument)}

\* load_timeline of the project file or of another file, into the timeline
\* the window holds (MainWindow.open_project)
LoadTimeline ==
    /\ pc = "saved"
    /\ \E file \in {disk} \cup ForeignFiles :
         /\ Install(load_timeline(Self, file))
         /\ last' = IF load_raises(file) THEN Call("load_timeline raises", FALSE)
                    ELSE Call("load_timeline", file.kind = "document")
    /\ pc' = "loaded"
    /\ UNCHANGED <<now, resolution, issued, timeline_data, disk, current_project_path, window>>

AssetIds == {"bg.png"}
CharacterIds == {"uuid-1"}

Stored(self) ==
    Cardinality(DOMAIN self.characters)
      + Cardinality({<<c, a>> \in (DOMAIN self.assets) \X AssetIds : a \in DOMAIN self.assets[c]})

\* the metadata MainWindow.add_asset builds
AssetData == {[path |-> "assets/bg.png", size |-> 1]}

AddAssetIn(categories, metadata) ==
    /\ Stored(Self) < MaxAssets
    /\ \E category \in categories, asset_id \in AssetIds, asset_data \in metadata :
         LET r == add_asset(Self, category, asset_id, asset_data)
         IN /\ Install(r.self)
            /\ last' = Call("add_asset", r.ret)
    /\ UNCHANGED <<now, resolution, issued, pc, timeline_data, disk, current_project_path, window>>

\* add_asset with one of the four categories and a dict
AddAsset == AddAssetIn(AssetCategories, AssetData)

\* add_asset with any category, one outside the four included, and any metadata
AddAssetAnyCategory == AddAssetIn(AssetCategories \cup {"videos"}, AssetData \cup NonDictData)

RemoveAsset ==
    /\ \E category \in AssetCategories, asset_id \in AssetIds :
         LET r == remove_asset(Self, category, asset_id)
         IN /\ r.ret
            /\ Install(r.self)
            /\ last' = Call("remove_asset", r.ret)
    /\ UNCHANGED <<now, resolution, issued, pc, timeline_data, disk, current_project_path, window>>

\* remove_asset with any category, one outside the four included, whether or
\* not the id is stored
RemoveAssetAnyCategory ==
    /\ \E category \in AssetCategories \cup {"videos"}, asset_id \in AssetIds :
         LET r == remove_asset(Self, category, asset_id)
         IN /\ Install(r.self)
            /\ last' = Call("remove_asset", r.ret)
    /\ UNCHANGED <<now, resolution, issued, pc, timeline_data, disk, current_project_path, window>>

AddCharacter ==
    /\ Stored(Self) < MaxAssets
    /\ \E new_char_id \in CharacterIds \ DOMAIN characters :
         Install(add_new_character(Self, new_char_id))
    /\ last' = Call("add_new_character", TRUE)
    /\ UNCHANGED <<now, resolution, issued, pc, timeline_data, disk, current_project_path, window>>

\* add_event with the parent omitted
AddEventAtHead == AddEventWith({None}, {[text |-> "A"]})

\* A session in the manner of the module's example: a timeline is edited,
\* saved, and the file is loaded into a timeline.
SessionSave ==
    /\ pc = "editing"
    /\ LET r == save_timeline(Self)
       IN /\ Install(r.self)
          /\ disk' = r.file
    /\ last' = Call("save_timeline", TRUE)
    /\ pc' = "saved"
    /\ UNCHANGED <<now, resolution, issued, timeline_data, current_project_path, window>>

SessionLoad ==
    /\ pc = "saved"
    /\ Install(load_timeline(NewTimeline, disk))
    /\ last' = Call("load_timeline", disk.kind = "document")
    /\ pc' = "loaded"
    /\ UNCHANGED <<now, resolution, issued, timeline_data, disk, current_project_path, window>>

SessionEdit ==
    /\ pc = "editing"
    /\ \/ AddEventAtHead
       \/ CreateBranchPoint
       \/ SelectBranch
       \/ UndoGeneration
       \/ AddAsset
       \/ AddCharacter

InitPersist == InitWith("fine", "editing")

NextPersist ==
    \/ SessionEdit
    \/ SessionSave
    \/ SessionLoad

SpecPersist == InitPersist /\ [][NextPersist]_vars

\* MainWindow._check_unsaved_changes: with dirty set the message box is
\* shown; `save_chosen` is its answer.  After save_project the result is
\* `not self.timeline.dirty`.  ret is True when the caller may proceed.
check_unsaved_changes(self, path, file, save_chosen, io, fileName) ==
    IF self.dirty /\ save_chosen
    THEN LET r == save_project(self, path, file, io, fileName)
         IN [self |-> r.self, file |-> r.file, path |-> r.path, ret |-> ~r.self.dirty]
    ELSE [self |-> self, file |-> file, path |-> path, ret |-> TRUE]

\* MainWindow.closeEvent: event.accept() exactly when the check lets it
closeEvent(self, path, file, save_chosen, io, fileName) ==
    LET r == check_unsaved_changes(self, path, file, save_chosen, io, fileName)
    IN [self |-> r.self, file |-> r.file, path |-> r.path, accepted |-> r.ret]

\* MainWindow.new_project on the timeline: a fresh StoryTimeline and no path
\* when the check lets it, nothing otherwise
new_project(self, path, file, save_chosen, io, fileName) ==
    LET r == check_unsaved_changes(self, path, file, save_chosen, io, fileName)
    IN IF r.ret
       THEN [self |-> NewTimeline, file |-> r.file, path |-> None, replaced |-> TRUE]
       ELSE [self |-> r.self, file |-> r.file, path |-> r.path, replaced |-> FALSE]

\* MainWindow.open_project with a file chosen in the dialog: the chosen file
\* is loaded when the check lets it
open_project(self, path, file, save_chosen, io, fileName, chosen) ==
    LET r == check_unsaved_changes(self, path, file, save_chosen, io, fileName)
    IN IF r.ret
       THEN [self |-> load_timeline(r.self, chosen), file |-> r.file,
             path |-> ProjectPath, replaced |-> TRUE]
       ELSE [self |-> r.self, file |-> r.file, path |-> r.path, replaced |-> FALSE]

(***************************************************************************)
(* A project session in the main window: a new project is named (or not),  *)
(* edited, saved in one of the ways the window offers, a file is opened,   *)
(* and the timeline opened is used.                                        *)
(***************************************************************************)
SaveProjectAs ==
    /\ pc \in {"new", "editing"}
    /\ \E io \in IoOutcomes, fileName \in {None, ProjectPath} :
         LET r == save_project_as(Self, current_project_path, disk, io, fileName)
         IN /\ Install(r.self)
            /\ disk' = r.file
            /\ current_project_path' = r.path
            /\ last' = Call("save_project_as", fileName # None /\ io = "ok")
    /\ pc' = IF pc = "new" THEN "editing" ELSE "saved"
    /\ UNCHANGED <<now, resolution, issued, timeline_data, window>>

SaveProject ==
    /\ pc = "editing"
    /\ \E io \in IoOutcomes, fileName \in {None, ProjectPath} :
         LET r == save_project(Self, current_project_path, disk, io, fileName)
         IN /\ Install(r.self)
            /\ disk' = r.file
            /\ current_project_path' = r.path
            /\ last' = Call("save_project",
                            (current_project_path # None \/ fileName # None) /\ io = "ok")
    /\ pc' = "saved"
    /\ UNCHANGED <<now, resolution, issued, timeline_data, window>>

AutoSaveProject ==
    /\ pc = "editing"
    /\ \E makedirs_ok \in BOOLEAN, io_copy \in IoOutcomes, io \in IoOutcomes :
         LET r == auto_save_project(Self, current_project_path, disk, makedirs_ok, io_copy, io)
         IN /\ Install(r.self)
            /\ disk' = r.file
            /\ current_project_path' = r.path
            /\ last' = Call("auto_save_project",
                            current_project_path # None /\ dirty /\ makedirs_ok /\ io = "ok")
    /\ pc' = "saved"
    /\ UNCHANGED <<now, resolution, issued, timeline_data, window>>

ProjectEdit ==
    /\ pc = "editing"
    /\ \/ AddEventAtHead
       \/ SelectBranch
       \/ AddAsset
       \/ RemoveAsset

ProjectUse ==
    /\ pc = "loaded"
    /\ \/ AddAssetAnyCategory
       \/ RemoveAssetAnyCategory
       \/ SelectBranch

InitProject == InitWith("fine", "new")

NextProject ==
    \/ SaveProjectAs
    \/ ProjectEdit
    \/ SaveTimeline
    \/ SaveProject
    \/ AutoSaveProject
    \/ LoadTimeline
    \/ ProjectUse

SpecProject == InitProject /\ [][NextProject]_vars

(***************************************************************************)
(* The scenario: on an empty timeline add A, add B under A, make A a       *)
(* branch point with the options x and y, select one of the options; the   *)
(* path may be read and the text of a node edited at any point.            *)
(***************************************************************************)
\* StoryTimelineWidget.edit_node with the dialog accepted and a text typed,
\* on the timeline: the payload is a dict, its "text" is set in place
edit_node(self, event_id, content) ==
    IF event_id \notin DOMAIN self.events THEN self
    ELSE [self EXCEPT !.events[event_id].data = DictSet(@, "text", content),
                      !.dirty = TRUE]

\* an edit of a node that has not been edited
EditNode ==
    /\ \E event_id \in DOMAIN events, content \in {"edited"} :
         /\ DictGet(events[event_id].data, "text", "") # content
         /\ Install(edit_node(Self, event_id, content))
    /\ last' = Call("edit_node", TRUE)
    /\ UNCHANGED <<now, resolution, issued, pc, timeline_data, disk,
                   current_project_path, window>>

ScriptAdd(at, data, parent, next) ==
    /\ pc = at
    /\ \E timestamp \in Readings(now) :
         LET r == add_event(Self, timestamp, "text_node", data, parent, None)
         IN /\ Install(r.self)
            /\ now' = timestamp
            /\ issued' = Append(issued, r.ret)
    /\ last' = Call("add_event", TRUE)
    /\ pc' = next
    /\ UNCHANGED <<resolution, timeline_data, disk, current_project_path, window>>

ScriptAddA == ScriptAdd("start", [text |-> "A"], None, "added_A")

ScriptAddB == ScriptAdd("added_A", [text |-> "B"], issued[1], "added_B")

ScriptBranch ==
    /\ pc = "added_B"
    /\ \E timestamps \in ReadingSeqs(2) :
         LET r == create_branch_point(Self, issued[1],
                     <<[text |-> "x", data |-> [content |-> "cx"]], [text |-> "y"]>>,
                     timestamps)
         IN /\ Install(r.self)
            /\ now' = timestamps[2]
            /\ issued' = issued \o r.ret.ids
            /\ last' = Call("create_branch_point", r.ret.ok)
    /\ pc' = "branched"
    /\ UNCHANGED <<resolution, timeline_data, disk, current_project_path, window>>

ScriptSelect ==
    /\ pc = "branched"
    /\ \E branch_id \in {issued[3], issued[4]} :
         LET r == select_branch(Self, branch_id)
         IN /\ Install(r.self)
            /\ last' = Call("select_branch", r.ret)
    /\ pc' = "selected"
    /\ UNCHANGED <<now, resolution, issued, timeline_data, disk, current_project_path, window>>

InitScenario == InitWith("coarse", "start") \/ InitWith("fine", "start")

NextScenario ==
    \/ ScriptAddA
    \/ ScriptAddB
    \/ ScriptBranch
    \/ ScriptSelect
    \/ GetTimelineData
    \/ EditNode

SpecScenario == InitScenario /\ [][NextScenario]_vars

(***************************************************************************)
(* The Ollama client (src/ollama_interface/ollama_client.py) and the main   *)
(* window's handlers around a generation (src/gui/main_window.py,           *)
(* src/gui/story_timeline_widget.py).  A formatted string is the sequence   *)
(* of its pieces.                                                           *)
(***************************************************************************)
\* Replies of the model, written without the quotes of JSON and with ::: for
\* the three backquotes of a markdown fence.
StoryJson == "{story_text: r, suggestions: []}"
OtherJson == "{text: r}"
ListJson == "[r]"
StoryAndErrorJson == "{story_text: r, suggestions: [], error: e}"
FencedStory == ":::json {story_text: r, suggestions: []} :::"
FencedOther == ":::json {text: r} :::"
FencedProse == ":::json oops :::"
Prose == "once upon a time"

\* response.message.content of a reply
ContentStrs ==
    {StoryJson, OtherJson, ListJson, StoryAndErrorJson, FencedStory, FencedOther,
     FencedProse, Prose}

\* json.loads: the parsed value and whether it is a dict, or JSONDecodeError
json_loads(str) ==
    CASE str = StoryJson ->
           [raises |-> FALSE, is_dict |-> TRUE,
            value |-> [story_text |-> "r", suggestions |-> <<>>]]
      [] str = OtherJson ->
           [raises |-> FALSE, is_dict |-> TRUE, value |-> [text |-> "r"]]
      [] str = ListJson ->
           [raises |-> FALSE, is_dict |-> FALSE, value |-> <<"r">>]
      [] str = StoryAndErrorJson ->
           [raises |-> FALSE, is_dict |-> TRUE,
            value |-> [story_text |-> "r", suggestions |-> <<>>, error |-> <<"e">>]]
      [] OTHER -> [raises |-> TRUE]

\* the test for a fence in content_str
HasFence(content_str) == content_str \in {FencedStory, FencedOther, FencedProse}

\* the text between the fence and the next one, stripped
json_part(content_str) ==
    CASE content_str = FencedStory -> StoryJson
      [] content_str = FencedOther -> OtherJson
      [] OTHER -> "oops"

\* what self.client.chat does: it raises, or it returns a response with or
\* without message.content
ChatOutcomes ==
    {[raises |-> TRUE, e |-> "connection refused"]}
      \cup {[raises |-> FALSE, response |-> [message |-> [content |-> c]]] : c \in ContentStrs}
      \cup {[raises |-> FALSE, response |-> [done |-> TRUE]]}

\* str(response) of the response without a message
Repr(response) == "{done: True}"

HasStoryText(parsed) == parsed.is_dict /\ "story_text" \in DOMAIN parsed.value

\* OllamaClient.generate_story_segment from the try on: the result dict
generate_story_segment(chat) ==
    IF chat.raises THEN [error |-> <<"API call failed: ", chat.e>>]
    ELSE IF "message" \in DOMAIN chat.response
    THEN LET content_str == chat.response.message.content
             parsed_content == json_loads(content_str)
         IN IF ~parsed_content.raises
            THEN IF HasStoryText(parsed_content) THEN parsed_content.value
                 ELSE [error |-> <<"Invalid JSON structure received">>,
                       raw_content |-> content_str]
            ELSE IF HasFence(content_str)
            THEN LET extracted == json_loads(json_part(content_str))
                 IN IF extracted.raises
                    THEN [error |-> <<"Failed to parse JSON response">>,
                          raw_content |-> content_str]
                    ELSE IF HasStoryText(extracted) THEN extracted.value
                    ELSE [error |-> <<"Invalid extracted JSON structure">>,
                          raw_content |-> content_str]
            ELSE [error |-> <<"Non-JSON response received">>, raw_content |-> content_str]
    ELSE [error |-> <<"Unexpected response structure">>, raw_response |-> chat.response]

\* OllamaWorker.__init__
OllamaWorker == [request_id |-> <<"unknown", 0>>, emitted |-> <<>>]

\* OllamaWorker.run with the client initialised: the worker afterwards, with
\* the signals it has emitted, in order.  It has no access to the timeline.
run(worker, request_id, chat) ==
    LET result == generate_story_segment(chat)
    IN IF "error" \in DOMAIN result
       THEN LET error_msg == result.error \o <<"Raw: ", DictGet(result, "raw_content", "")>>
            IN [request_id |-> request_id,
                emitted |-> worker.emitted \o
                            <<[signal |-> "error", request_id |-> request_id,
                               payload |-> error_msg]>>]
       ELSE [request_id |-> request_id,
             emitted |-> worker.emitted \o
                         <<[signal |-> "finished", request_id |-> request_id,
                            payload |-> result]>>]

\* The main window as the handlers see it: the timeline, the widget's
\* selection, the message box and the undo button.
MainWindow ==
    [self             |-> Self,
     selected_node_id |-> selected_node_id,
     message_box      |-> message_box,
     undo_button      |-> undo_button]

\* the ids of the nodes StoryTimelineWidget.refresh_timeline builds
Nodes(self) ==
    LET p == get_timeline_data(self, None, TRUE).path
    IN {p[i].event_id : i \in DOMAIN p}

\* StoryTimelineWidget.refresh_timeline: clear_nodes drops the selection
refresh_timeline(w) == [w EXCEPT !.selected_node_id = None]

\* StoryTimelineWidget.select_node
select_node(w, event_id) == [w EXCEPT !.selected_node_id = event_id]

RECURSIVE HasOllamaOnPath(_, _, _)
\* the loop of update_undo_button_state
HasOllamaOnPath(self, current_id, seen) ==
    IF current_id = None \/ current_id \in seen THEN FALSE
    ELSE IF current_id \notin DOMAIN self.events THEN FALSE
    ELSE IF self.events[current_id].event_type = "ollama_generation" THEN TRUE
    ELSE HasOllamaOnPath(self, self.events[current_id].parent_event_id,
                         seen \cup {current_id})

\* refresh_timeline_view without line 1702
refresh_timeline_view_leaving_dirty(w, timestamp) ==
    LET w1 == refresh_timeline(w)
        empty == DOMAIN w1.self.events = {} /\ w1.self.head_event_id = None
        r == add_event(w1.self, timestamp, "text_node", RootData, None, None)
        w2 == IF empty THEN [w1 EXCEPT !.self = r.self] ELSE w1
        w3 == [w2 EXCEPT !.undo_button =
                  HasOllamaOnPath(w2.self, w2.self.head_event_id, {})]
    IN [w |-> IF w3.self.head_event_id # None
              THEN select_node(w3, w3.self.head_event_id) ELSE w3,
        created |-> IF empty THEN <<r.ret>> ELSE <<>>]

\* MainWindow.refresh_timeline_view: the window afterwards and the ids of
\* the events it created
refresh_timeline_view(w, timestamp) ==
    LET w1 == refresh_timeline(w)
        empty == DOMAIN w1.self.events = {} /\ w1.self.head_event_id = None
        r == add_event(w1.self, timestamp, "text_node", RootData, None, None)
        w2 == IF empty THEN [w1 EXCEPT !.self = [r.self EXCEPT !.dirty = FALSE]] ELSE w1
        w3 == [w2 EXCEPT !.undo_button =
                  HasOllamaOnPath(w2.self, w2.self.head_event_id, {})]
    IN [w |-> IF w3.self.head_event_id # None
              THEN select_node(w3, w3.self.head_event_id) ELSE w3,
        created |-> IF empty THEN <<r.ret>> ELSE <<>>]

\* StoryTimelineWidget.add_new_node with the dialog accepted and a text typed
add_new_node(w, timestamp, content) ==
    LET r == add_event(w.self, timestamp, "text_node", [text |-> content],
                       w.selected_node_id, None)
        w1 == refresh_timeline([w EXCEPT !.self = r.self])
    IN [w |-> IF r.ret \in Nodes(r.self) THEN select_node(w1, r.ret) ELSE w1,
        created |-> <<r.ret>>]

\* _handle_ollama_result attaching to the head whatever is selected
handle_ollama_result_at_head(w, timestamp, request_id, result, prompt_used) ==
    LET story_text == DictGet(result, "story_text", "")
        suggestions == DictGet(result, "suggestions", <<>>)
        r == add_event(w.self, timestamp, "ollama_generation",
                       [prompt |-> prompt_used, response |-> story_text,
                        suggestions |-> suggestions],
                       w.self.head_event_id, request_id)
        w1 == [w EXCEPT !.self = [r.self EXCEPT !.dirty = TRUE]]
        w2 == refresh_timeline_view(w1, timestamp).w
    IN [w |-> [select_node(w2, r.ret) EXCEPT !.undo_button = TRUE],
        created |-> <<r.ret>>]

\* MainWindow._handle_ollama_result
handle_ollama_result(w, timestamp, request_id, result, prompt_used) ==
    LET story_text == DictGet(result, "story_text", "")
        suggestions == DictGet(result, "suggestions", <<>>)
        parent_node_id == IF w.selected_node_id # None THEN w.selected_node_id
                          ELSE w.self.head_event_id
        r == add_event(w.self, timestamp, "ollama_generation",
                       [prompt |-> prompt_used, response |-> story_text,
                        suggestions |-> suggestions],
                       parent_node_id, request_id)
        w1 == [w EXCEPT !.self = [r.self EXCEPT !.dirty = TRUE]]
        w2 == refresh_timeline_view(w1, timestamp).w
    IN [w |-> [select_node(w2, r.ret) EXCEPT !.undo_button = TRUE],
        created |-> <<r.ret>>]

\* MainWindow._handle_ollama_error
handle_ollama_error(w, request_id, error_message) ==
    [w EXCEPT !.message_box = <<"Ollama failed: ">> \o error_message]

RECURSIVE LastOllamaEvent(_, _, _)
\* the loop of undo_last_ollama: the id of the latest generated event on the
\* head's path, or None
LastOllamaEvent(self, current_id, seen) ==
    IF current_id = None \/ current_id \in seen THEN None
    ELSE IF current_id \notin DOMAIN self.events THEN None
    ELSE LET event == self.events[current_id]
         IN IF event.event_type = "ollama_generation" /\ event.ollama_request_id # None
            THEN current_id
            ELSE LastOllamaEvent(self, event.parent_event_id, seen \cup {current_id})

\* MainWindow.undo_last_ollama with the confirmation accepted
undo_last_ollama(w, timestamp) ==
    LET last_ollama_event == LastOllamaEvent(w.self, w.self.head_event_id, {})
    IN IF last_ollama_event = None
       THEN [w |-> [w EXCEPT !.message_box = <<"no generation to undo">>,
                             !.undo_button = FALSE],
             created |-> <<>>, success |-> FALSE]
       ELSE LET r == undo_ollama_generation(w.self,
                        w.self.events[last_ollama_event].ollama_request_id)
            IN IF r.ret
               THEN LET v == refresh_timeline_view(
                                [w EXCEPT !.self = [r.self EXCEPT !.dirty = TRUE]],
                                timestamp)
                    IN [w |-> [v.w EXCEPT !.undo_button = FALSE],
                        created |-> v.created, success |-> TRUE]
               ELSE [w |-> [w EXCEPT !.message_box = <<"undo failed">>],
                     created |-> <<>>, success |-> FALSE]

InstallWindow(w) ==
    /\ Install(w.self)
    /\ selected_node_id' = w.selected_node_id
    /\ message_box' = w.message_box
    /\ undo_button' = w.undo_button

\* MainWindow.__init__, line 108: the first refresh, of the empty timeline
RefreshTimelineView ==
    /\ pc = "constructed"
    /\ \E timestamp \in Readings(now) :
         LET r == refresh_timeline_view(MainWindow, timestamp)
         IN /\ InstallWindow(r.w)
            /\ now' = IF r.created = <<>> THEN now ELSE timestamp
            /\ issued' = issued \o r.created
    /\ last' = Call("refresh_timeline_view", TRUE)
    /\ pc' = "shown"
    /\ UNCHANGED <<resolution, timeline_data, disk, current_project_path,
                   ollama_worker, uuids, enabled, ollama_thread>>

\* a click on a node of the widget; the widget is disabled while a
\* generation runs
SelectNode ==
    /\ pc = "shown"
    /\ enabled.timeline_widget
    /\ \E event_id \in Nodes(Self) \ {selected_node_id} :
         InstallWindow(select_node(MainWindow, event_id))
    /\ last' = Call("select_node", TRUE)
    /\ UNCHANGED <<now, resolution, issued, pc, timeline_data, disk,
                   current_project_path, ollama_worker, uuids, enabled, ollama_thread>>

AddNewNode ==
    /\ pc = "shown"
    /\ enabled.timeline_widget
    /\ Len(issued) < MaxEvents
    /\ \E timestamp \in Readings(now), content \in {"A"} :
         LET r == add_new_node(MainWindow, timestamp, content)
         IN /\ InstallWindow(r.w)
            /\ now' = timestamp
            /\ issued' = issued \o r.created
    /\ last' = Call("add_new_node", TRUE)
    /\ UNCHANGED <<resolution, pc, timeline_data, disk, current_project_path,
                   ollama_worker, uuids, enabled, ollama_thread>>

\* _ollama_finished without its line for the menu bar
ollama_finished_leaving_menu(controls) ==
    [enabled       |-> [widget \in DOMAIN controls |->
                           IF widget = "menuBar" THEN controls[widget] ELSE TRUE],
     ollama_thread |-> None,
     ollama_worker |-> None]

\* MainWindow._ollama_finished: the controls are enabled again, the thread
\* is stopped and both references are dropped
ollama_finished(controls) ==
    [enabled       |-> [widget \in DOMAIN controls |-> TRUE],
     ollama_thread |-> None,
     ollama_worker |-> None]

\* MainWindow.generate_story with a client and a prompt, by a click on the
\* generate button: the controls are disabled, the worker is created and its
\* thread started
GenerateStory ==
    /\ pc = "shown"
    /\ enabled.generate_button
    /\ uuids < MaxRequests
    /\ Len(issued) < MaxEvents
    /\ enabled' = [widget \in Widgets |-> FALSE]
    /\ ollama_thread' = [started |-> TRUE]
    /\ ollama_worker' = OllamaWorker
    /\ last' = Call("generate_story", TRUE)
    /\ UNCHANGED <<events, order, head_event_id, active_branch_id, characters, assets,
                   dirty, now, resolution, issued, pc, timeline_data, disk,
                   current_project_path, selected_node_id, uuids, message_box,
                   undo_button>>

\* OllamaWorker.run in the worker's thread
WorkerRun ==
    /\ ollama_thread # None
    /\ ollama_worker # None
    /\ ollama_worker.emitted = <<>>
    /\ \E chat \in ChatOutcomes :
         ollama_worker' = run(ollama_worker, <<"ollama", uuids + 1>>, chat)
    /\ uuids' = uuids + 1
    /\ last' = Call("OllamaWorker.run", TRUE)
    /\ UNCHANGED <<events, order, head_event_id, active_branch_id, characters, assets,
                   dirty, now, resolution, issued, pc, timeline_data, disk,
                   current_project_path, selected_node_id, message_box, undo_button,
                   enabled, ollama_thread>>

\* the finished signal arrives: _handle_ollama_result, then _ollama_finished
HandleOllamaResult ==
    /\ ollama_worker # None
    /\ ollama_worker.emitted # <<>>
    /\ ollama_worker.emitted[1].signal = "finished"
    /\ \E timestamp \in Readings(now) :
         LET r == handle_ollama_result(MainWindow, timestamp,
                     ollama_worker.emitted[1].request_id, ollama_worker.emitted[1].payload, "p")
         IN /\ InstallWindow(r.w)
            /\ now' = timestamp
            /\ issued' = issued \o r.created
    /\ LET f == ollama_finished(enabled)
       IN /\ enabled' = f.enabled
          /\ ollama_thread' = f.ollama_thread
          /\ ollama_worker' = f.ollama_worker
    /\ last' = Call("_handle_ollama_result", TRUE)
    /\ UNCHANGED <<resolution, pc, timeline_data, disk, current_project_path, uuids>>

\* the error signal arrives: _handle_ollama_error, then _ollama_finished
HandleOllamaError ==
    /\ ollama_worker # None
    /\ ollama_worker.emitted # <<>>
    /\ ollama_worker.emitted[1].signal = "error"
    /\ InstallWindow(handle_ollama_error(MainWindow, ollama_worker.emitted[1].request_id,
                                         ollama_worker.emitted[1].payload))
    /\ LET f == ollama_finished(enabled)
       IN /\ enabled' = f.enabled
          /\ ollama_thread' = f.ollama_thread
          /\ ollama_worker' = f.ollama_worker
    /\ last' = Call("_handle_ollama_error", TRUE)
    /\ UNCHANGED <<now, resolution, issued, pc, timeline_data, disk,
                   current_project_path, uuids>>

\* a click on the undo button, which stays enabled while a generation runs
UndoLastOllama ==
    /\ pc = "shown"
    /\ undo_button
    /\ \E timestamp \in Readings(now) :
         LET r == undo_last_ollama(MainWindow, timestamp)
         IN /\ InstallWindow(r.w)
            /\ now' = IF r.created = <<>> THEN now ELSE timestamp
            /\ issued' = issued \o r.created
            /\ last' = Call("undo_last_ollama", r.success)
    /\ UNCHANGED <<resolution, pc, timeline_data, disk, current_project_path,
                   ollama_worker, uuids, enabled, ollama_thread>>

\* The main window from its construction on.  A dialog or a generation lies
\* between two add_event calls of the handlers, so the readings of the clock
\* differ.
InitWindow == InitWith("fine", "constructed")

NextWindow ==
    \/ RefreshTimelineView
    \/ SelectNode
    \/ AddNewNode
    \/ GenerateStory
    \/ WorkerRun
    \/ HandleOllamaResult
    \/ HandleOllamaError
    \/ UndoLastOllama

SpecWindow == InitWindow /\ [][NextWindow]_vars

(***************************************************************************)
(* The arguments the properties range over.                                *)
(***************************************************************************)
ChoiceSeqs(least) == UNION {[1..n -> BranchChoices] : n \in least..MaxChoices}

DataOf(event_type) ==
    IF event_type = "text_node" THEN TextNodeData
    ELSE IF event_type = "ollama_generation" THEN GenerationData
    ELSE BranchOptionData

Removed(id) == id \in Range(issued) /\ id \notin DOMAIN events

NoDuplicates(s) == \A i, j \in DOMAIN s : i # j => s[i] # s[j]

(***************************************************************************)
(* C1  Bidirectional consistency: every event whose parent_event_id is p   *)
(* has p among the keys of events and its own id in p's child_event_ids.   *)
(***************************************************************************)
BidirectionalConsistency ==
    \A id \in DOMAIN events :
        LET p == events[id].parent_event_id
        IN p # None => /\ p \in DOMAIN events
                       /\ id \in Range(events[p].child_event_ids)

(***************************************************************************)
(* C2  Head retreat on undo: when undo_ollama_generation removes the event *)
(* head_event_id names, the head afterwards is None or names an event      *)
(* still in events.                                                        *)
(***************************************************************************)
HeadRetreatsToSurvivor ==
    \A req \in RequestIds :
        LET r == undo_ollama_generation(Self, req)
        IN (/\ r.ret
            /\ head_event_id \in DOMAIN events
            /\ head_event_id \notin DOMAIN r.self.events)
           => \/ r.self.head_event_id = None
              \/ r.self.head_event_id \in DOMAIN r.self.events

(***************************************************************************)
(* C3  No dangling parents: every parent_event_id that is not None is a    *)
(* key of events.                                                          *)
(***************************************************************************)
NoDanglingParents ==
    \A id \in DOMAIN events :
        events[id].parent_event_id # None => events[id].parent_event_id \in DOMAIN events

(***************************************************************************)
(* C4  Id uniqueness: no two add_event calls on one timeline return the    *)
(* same id, whether or not the earlier event is still stored.              *)
(***************************************************************************)
IdsPairwiseDistinct == NoDuplicates(issued)

(***************************************************************************)
(* C5  Undo removes exactly the tagged set: after                          *)
(* undo_ollama_generation(g) the keys of events are the former keys minus  *)
(* the events tagged g, and every other event keeps its type, payload,     *)
(* request id and branch flags.                                            *)
(***************************************************************************)
UndoRemovesExactlyTagged ==
    \A req \in RequestIds \cup {None} :
        LET r == undo_ollama_generation(Self, req)
            tagged == {id \in DOMAIN events : events[id].ollama_request_id = req}
        IN /\ DOMAIN r.self.events = (DOMAIN events) \ tagged
           /\ \A id \in (DOMAIN events) \ tagged :
                LET before == events[id]
                    after == r.self.events[id]
                IN /\ after.event_id = before.event_id
                   /\ after.event_type = before.event_type
                   /\ after.data = before.data
                   /\ after.ollama_request_id = before.ollama_request_id
                   /\ after.is_branch_point = before.is_branch_point
                   /\ after.branch_choices = before.branch_choices

\* An undo has removed a tagged event; its child and grandchild are still
\* stored, and so is an event of another request.
UndoLeftDescendants ==
    /\ last = Call("undo_ollama_generation", TRUE)
    /\ \E c, d \in DOMAIN events :
         /\ Removed(events[c].parent_event_id)
         /\ events[d].parent_event_id = c
         /\ events[d].ollama_request_id # None

(***************************************************************************)
(* C6  Branch creation reattachment: create_branch_point(A, opts) with     *)
(* n >= 1 options on an existing A whose children are Cs returns n ids;    *)
(* A is a branch point whose child_event_ids are the ids and whose         *)
(* branch_choices pair the labels with the ids; every id is a              *)
(* branch_option child of A; the first option has the children Cs, which   *)
(* name it as parent; the other options have no children.                  *)
(***************************************************************************)
BranchReattachment ==
    \A A \in DOMAIN events, opts \in ChoiceSeqs(1) :
      \A timestamps \in ReadingSeqs(Len(opts)) :
        LET r == create_branch_point(Self, A, opts, timestamps)
            ids == r.ret.ids
            E == r.self.events
            Cs == events[A].child_event_ids
            n == Len(opts)
        IN /\ r.ret.ok
           /\ Len(ids) = n
           /\ A \in DOMAIN E
           /\ E[A].is_branch_point
           /\ E[A].child_event_ids = ids
           /\ Len(E[A].branch_choices) = n
           /\ \A i \in 1..n :
                /\ E[A].branch_choices[i] = [text |-> opts[i].text, target_id |-> ids[i]]
                /\ ids[i] \in DOMAIN E
                /\ E[ids[i]].event_type = "branch_option"
                /\ E[ids[i]].parent_event_id = A
                /\ i > 1 => E[ids[i]].child_event_ids = <<>>
           /\ E[ids[1]].child_event_ids = Cs
           /\ \A c \in Range(Cs) : c \in DOMAIN E /\ E[c].parent_event_id = ids[1]

(***************************************************************************)
(* C7  Branch conversion never orphans downstream content: after a         *)
(* successful create_branch_point(A, opts), whatever opts is, every former *)
(* child of A is in the child_event_ids of exactly one stored event, and   *)
(* names that event as its parent.                                         *)
(***************************************************************************)
BranchKeepsChildren ==
    \A A \in DOMAIN events, opts \in ChoiceSeqs(0) :
      \A timestamps \in ReadingSeqs(Len(opts)) :
        LET r == create_branch_point(Self, A, opts, timestamps)
            E == r.self.events
        IN r.ret.ok =>
             \A c \in Range(events[A].child_event_ids) :
                LET holders == {h \in DOMAIN E : c \in Range(E[h].child_event_ids)}
                IN /\ Cardinality(holders) = 1
                   /\ c \in DOMAIN E
                   /\ E[c].parent_event_id \in holders

(***************************************************************************)
(* C8  Head advancement: after add_event, whatever parent is passed, the   *)
(* head is the returned id, the new event's parent is the one passed (the  *)
(* former head when none is passed) and active_branch_id is as before;     *)
(* after a successful create_branch_point with n >= 1 options the head is  *)
(* the last created option.                                                *)
(***************************************************************************)
HeadAdvances ==
    /\ \A event_type \in EventTypes,
          parent \in {None, UnknownId} \cup DOMAIN events,
          timestamp \in Readings(now) :
         \A data \in DataOf(event_type),
            req \in (IF event_type = "ollama_generation" THEN RequestIds ELSE {None}) :
            LET r == add_event(Self, timestamp, event_type, data, parent, req)
            IN /\ r.self.head_event_id = r.ret
               /\ r.ret \in DOMAIN r.self.events
               /\ r.self.events[r.ret].parent_event_id =
                      (IF parent = None THEN head_event_id ELSE parent)
               /\ r.self.active_branch_id = active_branch_id
    /\ \A A \in DOMAIN events, opts \in ChoiceSeqs(1) :
         \A timestamps \in ReadingSeqs(Len(opts)) :
            LET r == create_branch_point(Self, A, opts, timestamps)
            IN /\ r.ret.ok
               /\ r.self.head_event_id = r.ret.ids[Len(opts)]
               /\ r.self.active_branch_id = active_branch_id

\* add_event has run with an unknown parent while a branch was selected:
\* the head is the new event, the active branch is where it was.
HeadMovedOffActiveBranch ==
    /\ last = Call("add_event", TRUE)
    /\ active_branch_id # None
    /\ head_event_id \in DOMAIN events
    /\ head_event_id # active_branch_id
    /\ events[head_event_id].parent_event_id = UnknownId
    /\ \E id \in DOMAIN events : events[id].is_branch_point

(***************************************************************************)
(* C9  Scenario: after add A, add B under A and create_branch_point(A,     *)
(* [x, y]) = [ox, oy], B's parent is ox and the path with branches is      *)
(* [A, oy]; after select_branch(ox) the path is [A, ox]: it ends at the    *)
(* selected option, and B, which lies below ox, is not on it.              *)
(***************************************************************************)
PathIds(p) == [i \in 1..Len(p) |-> p[i].event_id]

ScenarioUpToBranch ==
    /\ pc \in {"branched", "selected"} => events[issued[2]].parent_event_id = issued[3]
    /\ pc = "branched" =>
         LET r == get_timeline_data(Self, None, TRUE)
         IN r.terminates /\ PathIds(r.path) = <<issued[1], issued[4]>>

PathAfterSelect(expected) ==
    (pc = "selected" /\ active_branch_id = issued[3]) =>
        \A include_branches \in BOOLEAN :
            LET r == get_timeline_data(Self, None, include_branches)
            IN r.terminates /\ PathIds(r.path) = expected

ScenarioPathEndsAtOption ==
    ScenarioUpToBranch /\ PathAfterSelect(<<issued[1], issued[3]>>)

\* C9 as stated: after select_branch(ox) the path is [A, ox, B].
ScenarioPathIncludesB ==
    ScenarioUpToBranch /\ PathAfterSelect(<<issued[1], issued[3], issued[2]>>)

\* The path has been read after select_branch(ox).
ScenarioPathRead ==
    /\ pc = "selected"
    /\ active_branch_id = issued[3]
    /\ last = Call("get_timeline_data", TRUE)
    /\ PathIds(timeline_data) = <<issued[1], issued[3]>>
    /\ "branch_details" \in DOMAIN timeline_data[1]

(***************************************************************************)
(* C10  Round trip: loading the document a timeline was saved to gives     *)
(* the events (every field of every event), head_event_id,                 *)
(* active_branch_id, characters and assets of that timeline, with dirty    *)
(* false.                                                                  *)
(***************************************************************************)
RoundTrip ==
    LET saved == save_timeline(Self)
        loaded == load_timeline(NewTimeline, saved.file)
    IN /\ ~saved.self.dirty
       /\ DOMAIN loaded.events = DOMAIN events
       /\ \A id \in DOMAIN events :
            /\ loaded.events[id].event_id = events[id].event_id
            /\ loaded.events[id].timestamp = events[id].timestamp
            /\ loaded.events[id].event_type = events[id].event_type
            /\ loaded.events[id].data = events[id].data
            /\ loaded.events[id].parent_event_id = events[id].parent_event_id
            /\ loaded.events[id].child_event_ids = events[id].child_event_ids
            /\ loaded.events[id].ollama_request_id = events[id].ollama_request_id
            /\ loaded.events[id].emotion = events[id].emotion
            /\ loaded.events[id].is_branch_point = events[id].is_branch_point
            /\ loaded.events[id].branch_choices = events[id].branch_choices
       /\ loaded.head_event_id = head_event_id
       /\ loaded.active_branch_id = active_branch_id
       /\ loaded.characters = characters
       /\ loaded.assets = assets
       /\ ~loaded.dirty

\* A timeline with a dangling parent, a branch point, a selected branch and
\* an asset has been loaded from the file it was saved to.
LoadedWhatWasSaved ==
    /\ pc = "loaded"
    /\ last = Call("load_timeline", TRUE)
    /\ disk = DocumentFile(save_document(Self))
    /\ \E id \in DOMAIN events : Removed(events[id].parent_event_id)
    /\ \E id \in DOMAIN events : events[id].branch_choices # <<>>
    /\ active_branch_id # None
    /\ Stored(Self) > 0

(***************************************************************************)
(* C11  Traversal is a pure read: in every reachable state each            *)
(* get_timeline_data call, with or without include_branches, returns, and  *)
(* a second call on the timeline as the first left it returns the same     *)
(* list.                                                                   *)
(***************************************************************************)
PathReadIsStable ==
    \A include_branches \in BOOLEAN :
        LET first == get_timeline_data(Self, None, include_branches)
            second == get_timeline_data(Self, None, include_branches)
        IN first.terminates /\ second.terminates /\ first.path = second.path

(***************************************************************************)
(* C12  Forest shape: each event id occurs in the child_event_ids of at    *)
(* most one event and at most once there, and following parent_event_id    *)
(* from any event never comes back to an event already visited.            *)
(***************************************************************************)
Occurrences(l, x) == Cardinality({i \in DOMAIN l : l[i] = x})

RECURSIVE ParentWalkEnds(_, _)
\* following parent_event_id from id leaves the stored events or reaches
\* None before it meets an event of `seen`
ParentWalkEnds(id, seen) ==
    IF id = None \/ id \notin DOMAIN events THEN TRUE
    ELSE IF id \in seen THEN FALSE
    ELSE ParentWalkEnds(events[id].parent_event_id, seen \cup {id})

ForestShape ==
    /\ \A c \in Range(issued) :
         /\ Cardinality({h \in DOMAIN events : c \in Range(events[h].child_event_ids)}) <= 1
         /\ \A h \in DOMAIN events : Occurrences(events[h].child_event_ids, c) <= 1
    /\ \A id \in DOMAIN events : ParentWalkEnds(id, {})

NotStored == {UnknownId} \cup (Range(issued) \ DOMAIN events)

UnknownBranchPointRejected ==
    \A event_id \in NotStored, opts \in ChoiceSeqs(0) :
      \A timestamps \in ReadingSeqs(Len(opts)) :
        LET r == create_branch_point(Self, event_id, opts, timestamps)
        IN /\ r.ret = [ok |-> FALSE, ids |-> <<>>]
           /\ r.self = Self

\* A create_branch_point call has failed on a timeline that holds a branch
\* point and has a branch selected.
BranchPointCallFailed ==
    /\ last = Call("create_branch_point", FALSE)
    /\ \E id \in DOMAIN events : events[id].is_branch_point
    /\ active_branch_id # None

(***************************************************************************)
(* C18  select_branch(b): when b is a key of events it returns True and    *)
(* active_branch_id = head_event_id = b with events unchanged; when b is   *)
(* no key of events it returns False and changes nothing.                  *)
(***************************************************************************)
SelectBranchContract ==
    \A b \in NotStored \cup DOMAIN events :
        LET r == select_branch(Self, b)
        IN IF b \in DOMAIN events
           THEN /\ r.ret
                /\ r.self.active_branch_id = b
                /\ r.self.head_event_id = b
                /\ r.self.events = events
                /\ r.self.order = order
           ELSE /\ ~r.ret
                /\ r.self = Self

\* A select_branch call has failed after one that succeeded and after more
\* events were added: the head is off the active branch.
SelectBranchFailedAfterSuccess ==
    /\ last = Call("select_branch", FALSE)
    /\ active_branch_id \in DOMAIN events
    /\ head_event_id # active_branch_id

(***************************************************************************)
(* C19  undo_ollama_generation(g) returns True exactly when some event     *)
(* carried g, and then none carries it any more; when none carried g it    *)
(* returns False and changes nothing, so a second undo of g right after a  *)
(* successful one returns False and changes nothing.                       *)
(***************************************************************************)
UndoReportsRemoval ==
    \A req \in RequestIds \cup {None} :
        LET tagged == {id \in DOMAIN events : events[id].ollama_request_id = req}
            r == undo_ollama_generation(Self, req)
            again == undo_ollama_generation(r.self, req)
        IN /\ r.ret <=> tagged # {}
           /\ r.ret => tagged \cap DOMAIN r.self.events = {}
           /\ ~r.ret => r.self = Self
           /\ ~again.ret
           /\ again.self = r.self

\* An undo has failed for a request id whose event an earlier undo removed,
\* while an event of another request is still stored.
UndoFailedSecondTime ==
    /\ last = Call("undo_ollama_generation", FALSE)
    /\ \E id \in Range(issued) : Removed(id) /\ id[2] = "ollama_generation"
    /\ \E id \in DOMAIN events : events[id].ollama_request_id # None

(***************************************************************************)
(* C14  Dirty tracks every mutation: after a successful add_event,         *)
(* create_branch_point, select_branch (one that moves the head or the      *)
(* active branch), undo_ollama_generation, add_asset or remove_asset,      *)
(* dirty is true.                                                          *)
(***************************************************************************)
DirtyTracksMutations ==
    /\ \A timestamp \in Readings(now), parent \in {None} \cup DOMAIN events :
         add_event(Self, timestamp, "text_node", [text |-> "A"], parent, None).self.dirty
    /\ \A A \in DOMAIN events, opts \in ChoiceSeqs(0) :
         \A timestamps \in ReadingSeqs(Len(opts)) :
            create_branch_point(Self, A, opts, timestamps).self.dirty
    /\ \A b \in DOMAIN events :
         (b # head_event_id \/ b # active_branch_id) => select_branch(Self, b).self.dirty
    /\ \A req \in RequestIds \cup {None} :
         LET r == undo_ollama_generation(Self, req) IN r.ret => r.self.dirty
    /\ \A category \in AssetCategories, asset_id \in AssetIds :
         /\ \A asset_data \in AssetData \cup NonDictData :
              LET r == add_asset(Self, category, asset_id, asset_data) IN r.ret => r.self.dirty
         /\ LET r == remove_asset(Self, category, asset_id) IN r.ret => r.self.dirty

(***************************************************************************)
(* C15  Save clears dirty only on success: a save whose write succeeds     *)
(* leaves dirty false and the other fields as they were; a save whose      *)
(* write fails leaves every field, dirty included, as it was; the same     *)
(* holds for a save made through save_project, save_project_as and         *)
(* auto_save_project.                                                      *)
(***************************************************************************)
SaveEffect(self_after, io) ==
    IF io = "ok" THEN self_after = [Self EXCEPT !.dirty = FALSE]
    ELSE self_after = Self

SaveClearsDirtyOnlyOnSuccess ==
    \A io \in IoOutcomes :
      /\ SaveEffect(save_timeline_writing(Self, disk, io).self, io)
      /\ \A path \in {None, ProjectPath}, fileName \in {None, ProjectPath} :
           /\ (path # None \/ fileName # None) =>
                 SaveEffect(save_project(Self, path, disk, io, fileName).self, io)
           /\ fileName # None =>
                 SaveEffect(save_project_as(Self, path, disk, io, fileName).self, io)
           /\ (path # None /\ dirty) =>
                 SaveEffect(auto_save_project(Self, path, disk, TRUE, io, io).self, io)

(***************************************************************************)
(* C16  Load never fails hard: load_timeline of a missing file, an         *)
(* unreadable file, a file that does not parse, or a document one of whose *)
(* events lacks a required field lets no exception through and leaves the  *)
(* timeline fresh and empty.                                               *)
(***************************************************************************)
LoadNeverFailsHard ==
    \A file \in {MissingFile, UnreadableFile, GarbageFile, DocumentFile(MalformedDocument)} :
        /\ ~load_raises(file)
        /\ load_timeline(Self, file) = NewTimeline

(***************************************************************************)
(* C20  add_asset in every reachable state, the states after a load        *)
(* included: with a category outside the four it returns False and changes *)
(* nothing; with one of the four it returns True, stores the metadata      *)
(* under the asset id in that bucket, sets dirty and leaves the other      *)
(* buckets, events, head_event_id and active_branch_id as they were.       *)
(***************************************************************************)
AddAssetContract ==
    \A category \in AssetCategories \cup {"videos"}, asset_id \in AssetIds,
       asset_data \in AssetData :
        LET r == add_asset(Self, category, asset_id, asset_data)
        IN IF category \notin AssetCategories
           THEN ~r.ret /\ r.self = Self
           ELSE /\ r.ret
                /\ r.self.assets[category][asset_id] = asset_data
                /\ r.self.dirty
                /\ \A c \in (DOMAIN assets) \ {category} : r.self.assets[c] = assets[c]
                /\ r.self.events = events
                /\ r.self.head_event_id = head_event_id
                /\ r.self.active_branch_id = active_branch_id

(***************************************************************************)
(* C21  remove_asset returns False and changes nothing when the category   *)
(* is no bucket of the registry or the id is not in that bucket; otherwise *)
(* it returns True, removes that id and no other from that bucket, sets    *)
(* dirty and leaves the other buckets and the event graph as they were.    *)
(* get_assets returns the registry, a bucket, or {} and changes nothing.   *)
(* The registries examined are the one of the state and the ones it        *)
(* becomes when a second asset joins a stored one.                         *)
(***************************************************************************)
OtherAssetId == "bgm.ogg"

Registries ==
    {Self} \cup {add_asset(Self, c, OtherAssetId, d).self :
                    c \in {b \in DOMAIN assets : DOMAIN assets[b] # {}}, d \in AssetData}

RemoveAssetContract ==
    \A self \in Registries :
      /\ \A category \in AssetCategories \cup {"videos"},
            asset_id \in AssetIds \cup {OtherAssetId} :
           LET r == remove_asset(self, category, asset_id)
           IN IF category \in DOMAIN self.assets /\ asset_id \in DOMAIN self.assets[category]
              THEN /\ r.ret
                   /\ DOMAIN r.self.assets[category] = (DOMAIN self.assets[category]) \ {asset_id}
                   /\ \A a \in DOMAIN r.self.assets[category] :
                        r.self.assets[category][a] = self.assets[category][a]
                   /\ DOMAIN r.self.assets = DOMAIN self.assets
                   /\ \A c \in (DOMAIN self.assets) \ {category} :
                        r.self.assets[c] = self.assets[c]
                   /\ r.self.dirty
                   /\ r.self.events = self.events
                   /\ r.self.order = self.order
                   /\ r.self.head_event_id = self.head_event_id
                   /\ r.self.active_branch_id = self.active_branch_id
                   /\ r.self.characters = self.characters
              ELSE ~r.ret /\ r.self = self
      /\ get_assets(self, <<>>) = self.assets
      /\ \A category \in AssetCategories \cup {"videos"} :
           get_assets(self, <<category>>) =
              IF category \in DOMAIN self.assets THEN self.assets[category] ELSE EmptyDict

\* a removal has failed on a loaded timeline that holds an asset, and the
\* registry is as it was
RemoveAssetMissed ==
    /\ last = Call("remove_asset", FALSE)
    /\ \E c \in DOMAIN assets : DOMAIN assets[c] # {}

(***************************************************************************)
(* C22  Lazy root materialization: a refresh of the timeline view on a     *)
(* timeline with no events and no head creates exactly one root text event *)
(* with no parent, makes it the head and leaves dirty false; a refresh on  *)
(* a timeline with at least one event creates no event and changes neither *)
(* head_event_id nor dirty.  The timelines examined are the window's own   *)
(* and the fresh one new_project puts in its place.                        *)
(***************************************************************************)
LazyRootMaterialization ==
    \A w \in {MainWindow, [MainWindow EXCEPT !.self = NewTimeline]},
       timestamp \in Readings(now) :
        LET r == refresh_timeline_view(w, timestamp)
            before == w.self
            after == r.w.self
        IN /\ (DOMAIN before.events = {} /\ before.head_event_id = None) =>
                /\ Len(r.created) = 1
                /\ DOMAIN after.events = {r.created[1]}
                /\ after.events[r.created[1]].event_type = "text_node"
                /\ after.events[r.created[1]].parent_event_id = None
                /\ after.head_event_id = r.created[1]
                /\ ~after.dirty
           /\ DOMAIN before.events # {} =>
                /\ r.created = <<>>
                /\ after.events = before.events
                /\ after.order = before.order
                /\ after.head_event_id = before.head_event_id
                /\ after.dirty = before.dirty

\* the window has just been shown: the root is the only event, it is the
\* head, and the timeline is not dirty
LazyRootShown ==
    /\ last = Call("refresh_timeline_view", TRUE)
    /\ pc = "shown"
    /\ DOMAIN events = {head_event_id}
    /\ events[head_event_id].data = RootData
    /\ ~dirty

(***************************************************************************)
(* C25  Generation mutates the timeline only on arrival of a success       *)
(* outcome: submitting a request and the worker's run leave the timeline   *)
(* as it was; the arrival of an error outcome leaves events,               *)
(* head_event_id, active_branch_id and dirty as they were; the arrival of  *)
(* a success outcome adds exactly one ollama_generation event that carries *)
(* the request's id, whose parent is the node selected at arrival, or the  *)
(* head if none is selected, and sets dirty.                               *)
(***************************************************************************)
GenerationStep ==
    /\ last'.op \in {"generate_story", "OllamaWorker.run"} =>
          UNCHANGED <<events, order, head_event_id, active_branch_id, characters,
                      assets, dirty>>
    /\ last'.op = "_handle_ollama_error" =>
          UNCHANGED <<events, order, head_event_id, active_branch_id, dirty>>
    /\ last'.op = "_handle_ollama_result" =>
          LET parent == IF selected_node_id # None THEN selected_node_id
                        ELSE head_event_id
          IN /\ Cardinality(DOMAIN events' \ DOMAIN events) = 1
             /\ DOMAIN events \subseteq DOMAIN events'
             /\ \A n \in DOMAIN events' \ DOMAIN events :
                  /\ events'[n].event_type = "ollama_generation"
                  /\ events'[n].ollama_request_id = ollama_worker.request_id
                  /\ ollama_worker.request_id \in RequestIds
                  /\ events'[n].parent_event_id = parent
                  /\ \A id \in DOMAIN events :
                       events'[id] = IF id = parent
                                     THEN [events[id] EXCEPT !.child_event_ids = Append(@, n)]
                                     ELSE events[id]
             /\ dirty'

Contains(message, text) == \E i \in DOMAIN message : message[i] = text

FailureSurfacedWithRaw ==
    \A chat \in ChatOutcomes :
        LET result == generate_story_segment(chat)
            request_id == <<"ollama", 1>>
            worker == run(OllamaWorker, request_id, chat)
            shown == handle_ollama_error(MainWindow, request_id,
                                         worker.emitted[1].payload).message_box
        IN "error" \in DOMAIN result =>
              /\ worker.emitted[1].signal = "error"
              /\ "raw_content" \in DOMAIN result => Contains(shown, result.raw_content)
              /\ "raw_response" \in DOMAIN result =>
                    Contains(shown, Repr(result.raw_response))

(***************************************************************************)
(* C23  get_timeline_data returns the ancestor chain of its start event:   *)
(* with s the active branch if one is set and the head otherwise, and s an *)
(* event of the timeline, the call returns and the list begins with an     *)
(* event that has no parent, every later element has the element before it *)
(* as its parent, the last element is s and no event occurs twice; with no *)
(* head and no active branch the list is empty.                            *)
(***************************************************************************)
AncestorChain ==
    \A include_branches \in BOOLEAN :
        LET s == IF active_branch_id # None THEN active_branch_id ELSE head_event_id
            r == get_timeline_data(Self, None, include_branches)
            p == r.path
        IN /\ r.terminates
           /\ s \in DOMAIN events =>
                /\ Len(p) >= 1
                /\ p[1].parent_event_id = None
                /\ \A i \in 2..Len(p) : p[i].parent_event_id = p[i - 1].event_id
                /\ p[Len(p)].event_id = s
                /\ NoDuplicates(PathIds(p))
           /\ (head_event_id = None /\ active_branch_id = None) => p = <<>>

(***************************************************************************)
(* C24  Live branch details: with include_branches true every branch point *)
(* of the returned path carries one detail for each of its branch_choices  *)
(* whose target exists, in the order of branch_choices, holding the        *)
(* choice's label, its target_id and the payload the target event has at   *)
(* the time of the call, so after an edit of the target the next call      *)
(* shows the edited payload; the other events of the path carry no         *)
(* details, and without include_branches no event does.                    *)
(***************************************************************************)
DetailsExpected(self, event) ==
    LET live == SelectSeq(event.branch_choices,
                          LAMBDA choice : choice.target_id \in DOMAIN self.events)
    IN [j \in 1..Len(live) |->
          [text |-> live[j].text, target_id |-> live[j].target_id,
           content |-> self.events[live[j].target_id].data]]

DetailsAreLive(self) ==
    /\ LET r == get_timeline_data(self, None, TRUE)
       IN r.terminates =>
            \A i \in DOMAIN r.path :
                LET event == self.events[r.path[i].event_id]
                IN IF event.is_branch_point
                   THEN /\ "branch_details" \in DOMAIN r.path[i]
                        /\ r.path[i].branch_details = DetailsExpected(self, event)
                   ELSE "branch_details" \notin DOMAIN r.path[i]
    /\ LET r == get_timeline_data(self, None, FALSE)
       IN r.terminates =>
            \A i \in DOMAIN r.path : "branch_details" \notin DOMAIN r.path[i]

LiveBranchDetails ==
    /\ DetailsAreLive(Self)
    /\ \A target \in DOMAIN events :
         LET edited == edit_node(Self, target, "edited")
         IN /\ edited.events[target].data.text = "edited"
            /\ DetailsAreLive(edited)

\* the path has been read with the branch details after an option was
\* edited: the detail holds the option's label and its edited payload
EditedDetailRead ==
    /\ last = Call("get_timeline_data", TRUE)
    /\ \E i \in DOMAIN timeline_data :
         /\ "branch_details" \in DOMAIN timeline_data[i]
         /\ \E j \in DOMAIN timeline_data[i].branch_details :
              LET detail == timeline_data[i].branch_details[j]
              IN /\ detail.content.text = "edited"
                 /\ detail.text # "edited"
                 /\ events[detail.target_id].data = detail.content

(***************************************************************************)
(* C27  Unknown-parent gap: add_event with a parent_event_id that is no    *)
(* key of events succeeds; the new event is stored with that               *)
(* parent_event_id, the child_event_ids of every event that was in the     *)
(* timeline are as they were, the head is the new event and dirty is true. *)
(***************************************************************************)
UnknownParentGap ==
    \A timestamp \in Readings(now), event_type \in {"text_node", "ollama_generation"} :
      \A data \in DataOf(event_type),
         req \in (IF event_type = "ollama_generation" THEN RequestIds ELSE {None}) :
        LET r == add_event(Self, timestamp, event_type, data, UnknownId, req)
        IN /\ r.ret \in DOMAIN r.self.events
           /\ r.self.events[r.ret].parent_event_id = UnknownId
           /\ \A id \in DOMAIN events :
                /\ id \in DOMAIN r.self.events
                /\ r.self.events[id].child_event_ids = events[id].child_event_ids
           /\ r.self.head_event_id = r.ret
           /\ r.self.dirty

(***************************************************************************)
(* C28  get_all_branches returns one summary for each event that is a      *)
(* branch point and none for any other event, each summary carrying the    *)
(* event's branch_choices; the result is the same whatever head_event_id   *)
(* and active_branch_id are, so a select_branch between two calls does not *)
(* change it.                                                              *)
(***************************************************************************)
AllBranchesAudited ==
    LET branches == get_all_branches(Self)
    IN /\ \A id \in DOMAIN events :
            Cardinality({i \in DOMAIN branches : branches[i].event_id = id})
               = IF events[id].is_branch_point THEN 1 ELSE 0
       /\ \A i \in DOMAIN branches :
            /\ branches[i].event_id \in DOMAIN events
            /\ branches[i].choices = events[branches[i].event_id].branch_choices
       /\ \A branch_id \in DOMAIN events \cup {UnknownId} :
            get_all_branches(select_branch(Self, branch_id).self) = branches
       /\ \A head \in DOMAIN events \cup {None}, active \in DOMAIN events \cup {None} :
            get_all_branches([Self EXCEPT !.head_event_id = head,
                                          !.active_branch_id = active]) = branches

\* a branch was selected on a timeline with a branch point; the selected
\* event is no option of the branch point, which is still reported
BranchPointAuditedAfterSelect ==
    /\ last = Call("select_branch", TRUE)
    /\ Len(get_all_branches(Self)) = 1
    /\ \A i \in DOMAIN get_all_branches(Self)[1].choices :
         get_all_branches(Self)[1].choices[i].target_id # active_branch_id
    /\ get_all_branches(Self)[1].choices # <<>>

(***************************************************************************)
(* C29  Active branch validity: active_branch_id is None or the id of an   *)
(* event of the timeline, and get_timeline_data returns a list that is not *)
(* empty whenever the head is an event of the timeline.                    *)
(***************************************************************************)
ActiveBranchValid ==
    /\ active_branch_id = None \/ active_branch_id \in DOMAIN events
    /\ head_event_id \in DOMAIN events =>
          \A include_branches \in BOOLEAN :
              Len(get_timeline_data(Self, None, include_branches).path) > 0

(***************************************************************************)
(* C30  A newly added event is displayed: in the state an add_event call   *)
(* leaves, get_timeline_data returns a list whose last element is the      *)
(* event the call returned, also when select_branch was called before.     *)
(***************************************************************************)
NewEventDisplayed ==
    last = Call("add_event", TRUE) =>
        \A include_branches \in BOOLEAN :
            LET r == get_timeline_data(Self, None, include_branches)
            IN /\ r.terminates
               /\ Len(r.path) > 0
               /\ r.path[Len(r.path)].event_id = issued[Len(issued)]

(***************************************************************************)
(* C35  Undo leaves no stale child link: after undo_ollama_generation(g)   *)
(* the child_event_ids of every event that is still stored is its former   *)
(* child_event_ids without the ids of the removed events, the other ids    *)
(* in their former order.                                                  *)
(***************************************************************************)
UndoLeavesNoStaleChild ==
    \A req \in RequestIds :
        LET r == undo_ollama_generation(Self, req)
            removed == (DOMAIN events) \ DOMAIN r.self.events
        IN \A id \in DOMAIN r.self.events :
              r.self.events[id].child_event_ids =
                 SelectSeq(events[id].child_event_ids, LAMBDA c : c \notin removed)

(***************************************************************************)
(* C36  Undo only touches generated content: whatever its argument, None   *)
(* included, undo_ollama_generation removes no event that carries no       *)
(* request id.                                                             *)
(***************************************************************************)
UndoOnlyGenerated ==
    \A req \in RequestIds \cup {None} :
        LET r == undo_ollama_generation(Self, req)
        IN \A id \in DOMAIN events :
              events[id].ollama_request_id = None => id \in DOMAIN r.self.events

(***************************************************************************)
(* C37  Ancestor walks terminate: in every reachable state, and in the     *)
(* timeline loaded from the document saved in it, get_timeline_data, the   *)
(* search loop of undo_last_ollama and the loop of                         *)
(* update_undo_button_state return, having visited no more events than    *)
(* the timeline holds.                                                     *)
(***************************************************************************)
\* where the search loop of undo_last_ollama (line 1658) and the loop of
\* update_undo_button_state (line 1718) stop
UndoSearchStops(event) ==
    event.event_type = "ollama_generation" /\ event.ollama_request_id # None

ButtonUpdateStops(event) == event.event_type = "ollama_generation"

RECURSIVE AncestorWalkReturns(_, _, _, _)
\* The loops of lines 1651-1661 and 1714-1721 of main_window.py read the
\* timeline and never write it: they return when they reach None, a missing
\* event or an event at which they stop, and run forever when they come
\* back to an event they have visited.
AncestorWalkReturns(self, current_id, seen, searching) ==
    IF current_id = None THEN TRUE
    ELSE IF current_id \in seen THEN FALSE
    ELSE IF current_id \notin DOMAIN self.events THEN TRUE
    ELSE IF (IF searching THEN UndoSearchStops(self.events[current_id])
             ELSE ButtonUpdateStops(self.events[current_id])) THEN TRUE
    ELSE AncestorWalkReturns(self, self.events[current_id].parent_event_id,
                             seen \cup {current_id}, searching)

WalksReturn(self) ==
    /\ \A include_branches \in BOOLEAN :
         LET r == get_timeline_data(self, None, include_branches)
         IN r.terminates /\ Len(r.path) <= Cardinality(DOMAIN self.events)
    /\ AncestorWalkReturns(self, self.head_event_id, {}, TRUE)
    /\ AncestorWalkReturns(self, self.head_event_id, {}, FALSE)

AncestorWalksTerminate ==
    /\ WalksReturn(Self)
    /\ WalksReturn(load_timeline(NewTimeline, save_timeline(Self).file))

(***************************************************************************)
(* C31  Unsaved changes are never forgotten: once dirty is true it stays   *)
(* true until a save has actually written the document or the timeline is  *)
(* replaced by load or new project; neither a view refresh, nor a failed   *)
(* save issued from save_project / auto_save_project, nor the              *)
(* unsaved-changes check lets a close, open or new-project action proceed  *)
(* as saved while the last mutation is not on disk.  Stated for every      *)
(* dirty timeline the window can hold and every way the dialogs and the    *)
(* file system can answer; the view refresh is taken on a timeline that    *)
(* holds an event, as the timeline of a window does once __init__ has      *)
(* refreshed the view (line 108).                                          *)
(***************************************************************************)
\* the file holds the document of the timeline as it is now
Written(file) == file = DocumentFile(save_document(Self))

UnsavedChangesNeverForgotten ==
    dirty =>
      /\ \A io \in IoOutcomes, fileName \in {None, ProjectPath} :
           /\ LET r == save_project(Self, current_project_path, disk, io, fileName)
              IN ~r.self.dirty => Written(r.file)
           /\ \A makedirs_ok \in BOOLEAN, io_copy \in IoOutcomes :
                LET r == auto_save_project(Self, current_project_path, disk,
                                           makedirs_ok, io_copy, io)
                IN ~r.self.dirty => Written(r.file)
           /\ LET r == closeEvent(Self, current_project_path, disk, TRUE, io, fileName)
              IN r.accepted => Written(r.file)
           /\ LET r == new_project(Self, current_project_path, disk, TRUE, io, fileName)
              IN r.replaced => Written(r.file)
           /\ LET r == open_project(Self, current_project_path, disk, TRUE, io, fileName, disk)
              IN r.replaced => Written(r.file)
      /\ (events # EmptyDict \/ head_event_id # None) =>
           \A timestamp \in Readings(now) :
              refresh_timeline_view(MainWindow, timestamp).w.self.dirty

(***************************************************************************)
(* C32  No author mutation while a generation is in flight, and at most    *)
(* one generation in flight: from the moment generate_story starts a       *)
(* worker until _ollama_finished runs, no author-triggered action can      *)
(* mutate or replace the timeline, and generate_story cannot start a       *)
(* second worker.  A step that begins and ends with a worker in place is   *)
(* a step before _ollama_finished: it leaves the timeline alone and is no  *)
(* generate_story.                                                         *)
(***************************************************************************)
InFlightStep ==
    (ollama_worker # None /\ ollama_worker' # None) =>
       /\ Self' = Self
       /\ order' = order
       /\ last'.op # "generate_story"

NoMutationInFlight == [][InFlightStep]_vars

(***************************************************************************)
(* C33  Every generation run completes with exactly one outcome: for each  *)
(* started worker run exactly one of the finished / error signals is       *)
(* emitted, its result or error handler runs before the cleanup handler,   *)
(* and afterwards the generate button, prompt input, timeline widget and   *)
(* menu bar are enabled again and no worker or thread reference remains.   *)
(* As a property of steps: the step in which run acts leaves exactly one   *)
(* signal, finished or error; the step that drops the worker is the        *)
(* handler of that signal followed by the cleanup.                         *)
(***************************************************************************)
CompletionStep ==
    /\ (ollama_worker # None /\ ollama_worker' # None /\ ollama_worker' # ollama_worker) =>
          /\ ollama_worker.emitted = <<>>
          /\ Len(ollama_worker'.emitted) = 1
          /\ ollama_worker'.emitted[1].signal \in {"finished", "error"}
    /\ (ollama_worker # None /\ ollama_worker' = None) =>
          /\ Len(ollama_worker.emitted) = 1
          /\ last'.op = IF ollama_worker.emitted[1].signal = "finished"
                        THEN "_handle_ollama_result" ELSE "_handle_ollama_error"
          /\ \A widget \in {"generate_button", "ollama_prompt_input",
                             "timeline_widget", "menuBar"} : enabled'[widget]
          /\ ollama_thread' = None
    /\ (ollama_worker = None) <=> (ollama_thread = None)

OneOutcomePerRun == [][CompletionStep]_vars

\* a run has ended with the error signal: its message is shown, the
\* controls are back and the references are gone
RunCompleted ==
    /\ last.op = "_handle_ollama_error"
    /\ uuids = 1
    /\ message_box # None
    /\ enabled.menuBar /\ enabled.generate_button
    /\ ollama_worker = None /\ ollama_thread = None

(***************************************************************************)
(* C34  Undo availability matches the head path: after every completed     *)
(* author action (generation result handled, undo performed, node added,   *)
(* project loaded or created) the undo button is enabled exactly when some *)
(* event on the ancestor chain of the head (head included) is a generated  *)
(* event, and an undo_last_ollama call in that situation removes the       *)
(* events of the generated event nearest to the head.                      *)
(***************************************************************************)
AuthorActions == {"refresh_timeline_view", "_handle_ollama_result",
                  "undo_last_ollama", "add_new_node"}

\* the events that remain when those of the request of `generated` go
EventsWithout(generated) ==
    {eid \in DOMAIN events :
        events[eid].ollama_request_id # events[generated].ollama_request_id}

UndoMatchesHeadPath ==
    (pc = "shown" /\ last.op \in AuthorActions /\ last.ok) =>
       /\ undo_button <=> HasOllamaOnPath(Self, head_event_id, {})
       /\ HasOllamaOnPath(Self, head_event_id, {}) =>
             \A timestamp \in Readings(now) :
                LET r == undo_last_ollama(MainWindow, timestamp)
                    nearest == LastOllamaEvent(Self, head_event_id, {})
                IN /\ r.success
                   /\ DOMAIN r.w.self.events = EventsWithout(nearest)

====
